---- MODULE Spec2Model ----
(***************************************************************************)
(* Event store (storeEvent, projections, replay), circuit breaker and      *)
(* order service of the CloudMarket services.                              *)
(*                                                                         *)
(* Three components, fifteen specifications:                               *)
(*   Spec         the event store: concurrent storeEvent executions        *)
(*                interleaving at every await, over the PostgreSQL tables  *)
(*                created by createTables;                                 *)
(*   ReplaySpec   storeEvent calls one at a time, and the replay route;    *)
(*   ReliableSpec the same with a database and a broker that never fail;   *)
(*   ReliableConcurrentSpec  storeEvent executions overlapping in pairs    *)
(*                and the replay route, with a database and a broker that  *)
(*                never fail;                                              *)
(*   StatsSpec, AggregateReadSpec, PageReadSpec, SnapshotReadSpec,         *)
(*   AnalyticsReadSpec  storeEvent executions and one read route each;     *)
(*   UnlistedTypeSpec  storeEvent applied to a type outside the resolver   *)
(*                tables;                                                  *)
(*   BreakerSpec  one CircuitBreaker instance with concurrent calls;       *)
(*   BreakerSeqSpec  the same breaker with calls made one at a time;       *)
(*   RecoverySpec the breaker in front of a dependency that recovers,      *)
(*                with fair scheduling of calls and of the clock;          *)
(*   OrderCreateSpec  concurrent POST /orders requests behind the          *)
(*                product-service breaker, on the one connection;          *)
(*   OrderStatusSpec  orders created without a fault, the payment and      *)
(*                cancel routes and the payment event handlers.            *)
(*                                                                         *)
(* Payload timestamps and the wall-clock fields of snapshots are left out: *)
(* no decision of the modelled code depends on them.                       *)
(***************************************************************************)
EXTENDS Integers, Sequences, FiniteSets, TLC

\* ------------------------------------------------------------------ bounds
MaxEvents == 2
MaxKey == 2
MaxFromSequence == 2
NumCallers == 2
TickStep == 30000
MaxNow == 120000

\* One execution of storeEvent per call, numbered in the order the calls start.
Workers == 1..MaxEvents
Keys == 1..MaxKey
Callers == 1..NumCallers

\* ------------------------------------------------------- event store: data
\* Event types the store subscribes to (setupEventListeners).
SubscribedEventTypes ==
    {"user.created", "user.login",
     "order.created", "order.status_changed", "order.cancelled",
     "payment.confirmed", "payment.failed",
     "inventory.reserve", "inventory.restore",
     "notification.sent", "notification.failed"}

\* Event types and payloads fed to storeEvent in the model.
InputEventTypes == {"user.created", "order.status_changed", "payment.failed"}
InputStatuses == {"confirmed"}
Payloads == [id : Keys, status : InputStatuses, amount : {10}]

\* extractAggregateId: the prefix of the template string and the payload
\* field it interpolates; <<"unknown">> for a type without extractor.
AggregatePrefix(eventType) ==
    CASE eventType \in {"user.created", "user.login"} -> "user"
      [] eventType \in {"order.created", "order.status_changed", "order.cancelled"} -> "order"
      [] eventType \in {"payment.confirmed", "payment.failed"} -> "payment"
      [] eventType \in {"inventory.reserve", "inventory.restore"} -> "product"
      [] eventType \in {"notification.sent", "notification.failed"} -> "notification"
      [] OTHER -> "unknown"

extractAggregateId(eventType, eventData) ==
    IF eventType \in SubscribedEventTypes
    THEN <<AggregatePrefix(eventType), eventData.id>>
    ELSE <<"unknown">>

extractAggregateType(eventType) ==
    CASE eventType \in {"user.created", "user.login"} -> "User"
      [] eventType \in {"order.created", "order.status_changed", "order.cancelled"} -> "Order"
      [] eventType \in {"payment.confirmed", "payment.failed"} -> "Payment"
      [] eventType \in {"inventory.reserve", "inventory.restore"} -> "Product"
      [] eventType \in {"notification.sent", "notification.failed"} -> "Notification"
      [] OTHER -> "Unknown"

\* createTables: the events table has PRIMARY KEY (id) only; there is no
\* UNIQUE constraint on (aggregate_id, aggregate_type, event_version), and
\* idx_events_aggregate is a plain index.
EventsVersionUnique == FALSE

\* createTables: idx_projections_name_aggregate is a plain (non UNIQUE)
\* index, so PostgreSQL finds no arbiter index for
\* ON CONFLICT (projection_name, aggregate_id) and rejects the statement.
ProjectionsArbiterIndex == FALSE

\* Registration order of this.projections (a Map iterates in insertion order).
ProjectionOrder == <<"user-summary", "order-summary", "analytics">>
NumProjections == Len(ProjectionOrder)

ProjectionEventTypes(name) ==
    CASE name = "user-summary" -> {"user.created", "user.login"}
      [] name = "order-summary" -> {"order.created", "order.status_changed", "order.cancelled"}
      [] name = "analytics" -> {"order.created", "payment.confirmed", "user.created"}
      [] OTHER -> {}

\* A nullable value is a sequence of length 0 (null) or 1.
Null == <<>>
Some(x) == <<x>>

\* The key under which project() reads the previous snapshot: the analytics
\* projection reads ('analytics', 'global'), the others the event's aggregate.
ProjectionReadKey(name, aggregateId) ==
    IF name = "analytics" THEN <<"global">> ELSE aggregateId

\* SELECT COALESCE(MAX(event_version), 0) ... WHERE aggregate_id, aggregate_type
MaxVersion(rows, aggregateId, aggregateType) ==
    LET vs == {r.version : r \in {x \in rows : x.aggregateId = aggregateId
                                               /\ x.aggregateType = aggregateType}}
    IN IF vs = {} THEN 0 ELSE CHOOSE v \in vs : \A u \in vs : u <= v

\* SELECT data FROM projections WHERE projection_name, aggregate_id: rows[0]
\* or null.
getProjectionRow(rows, name, key) ==
    LET m == {r \in rows : r.name = name /\ r.aggregateId = key}
    IN IF m = {} THEN Null ELSE Some((CHOOSE r \in m : TRUE).data)

\* The fold of projection `name`: the object project() returns.
\* A field the object does not have: NoNum for numeric fields, NoStr for
\* strings, the empty sequence for statusHistory.
NoNum == -1
NoStr == "absent"
EmptySnapshot ==
    [userId |-> NoNum, loginCount |-> NoNum, orderId |-> NoNum,
     status |-> NoStr, statusHistory |-> <<>>,
     totalUsers |-> NoNum, totalOrders |-> NoNum, totalRevenue |-> NoNum]
\* {...existing}: the fields of existing, none when existing is null.
Spread(existing) == IF existing = Null THEN EmptySnapshot ELSE existing[1]
\* (x || 0) for a numeric field
NumOr0(x) == IF x = NoNum THEN 0 ELSE x

AnalyticsInitial ==
    [EmptySnapshot EXCEPT !.totalUsers = 0, !.totalOrders = 0, !.totalRevenue = 0]

project(name, eventType, eventData, existing) ==
    CASE name = "user-summary" /\ eventType = "user.created" ->
            Some([EmptySnapshot EXCEPT !.userId = eventData.id, !.loginCount = 0])
      [] name = "user-summary" /\ eventType = "user.login" ->
            Some([Spread(existing) EXCEPT
                    !.loginCount = NumOr0(Spread(existing).loginCount) + 1])
      [] name = "order-summary" /\ eventType = "order.created" ->
            Some([EmptySnapshot EXCEPT !.orderId = eventData.id,
                    !.status = "pending", !.statusHistory = <<"pending">>])
      [] name = "order-summary" /\ eventType = "order.status_changed" ->
            Some([Spread(existing) EXCEPT !.status = eventData.status,
                    !.statusHistory = Append(Spread(existing).statusHistory,
                                             eventData.status)])
      [] name = "order-summary" /\ eventType = "order.cancelled" ->
            Some([Spread(existing) EXCEPT !.status = "cancelled",
                    !.statusHistory = Append(Spread(existing).statusHistory,
                                             "cancelled")])
      [] name = "analytics" /\ eventType = "user.created" ->
            LET e == IF existing = Null THEN AnalyticsInitial ELSE existing[1]
            IN Some([e EXCEPT !.totalUsers = e.totalUsers + 1])
      [] name = "analytics" /\ eventType = "order.created" ->
            LET e == IF existing = Null THEN AnalyticsInitial ELSE existing[1]
            IN Some([e EXCEPT !.totalOrders = e.totalOrders + 1])
      [] name = "analytics" /\ eventType = "payment.confirmed" ->
            LET e == IF existing = Null THEN AnalyticsInitial ELSE existing[1]
            IN Some([e EXCEPT !.totalRevenue = e.totalRevenue + eventData.amount])
      [] OTHER -> Null

\* INSERT ... ON CONFLICT (projection_name, aggregate_id) DO UPDATE: the rows
\* after the statement (only reached when the statement is accepted).
upsertProjection(rows, name, aggregateId, data, eventId) ==
    LET m == {r \in rows : r.name = name /\ r.aggregateId = aggregateId}
    IN IF m = {}
       THEN rows \cup {[name |-> name, aggregateId |-> aggregateId, data |-> data,
                        version |-> 1, lastEventId |-> eventId]}
       ELSE (rows \ m) \cup
            {[r EXCEPT !.data = data, !.version = r.version + 1,
                       !.lastEventId = eventId] : r \in m}

\* ORDER BY sequence_number ASC
RECURSIVE SortBySequence(_)
SortBySequence(rows) ==
    IF rows = {} THEN <<>>
    ELSE LET r == CHOOSE x \in rows : \A y \in rows : x.sequence <= y.sequence
         IN <<r>> \o SortBySequence(rows \ {r})

\* A bug the loop of updateProjections could have: no `includes` test, every
\* projection handed every event.
NextInterestedEveryProjection(i, eventType) ==
    IF i + 1 > NumProjections THEN NumProjections + 1 ELSE i + 1

\* The next index of ProjectionOrder after i whose projection lists
\* eventType (the `includes` test of the loop); NumProjections + 1 when the
\* loop is over.
RECURSIVE NextInterested(_, _)
NextInterested(i, eventType) ==
    IF i + 1 > NumProjections THEN NumProjections + 1
    ELSE IF eventType \in ProjectionEventTypes(ProjectionOrder[i + 1])
         THEN i + 1
         ELSE NextInterested(i + 1, eventType)

\* A bug the loop of updateProjections could have: no try/catch around one
\* projection, so that a failure ends the loop.
AfterProjectionNoCatch(i, eventType, failed) ==
    IF failed THEN NumProjections + 1 ELSE NextInterested(i, eventType)

\* updateProjections: where the loop goes after the projection at index i,
\* whether or not its fold or its snapshot write failed (the error is caught
\* and logged inside the loop body).
AfterProjection(i, eventType, failed) == NextInterested(i, eventType)

\* ------------------------------------------------------ event store: state
VARIABLES
    events,        \* rows of table events
    sequence,      \* last value of the SERIAL of events.sequence_number
    projections,   \* rows of table projections
    workers,       \* the storeEvent executions, one record per call; the
                   \* k-th call's uuidv4() event id is modelled as k
    replay,        \* the response of the last replay request
    reply          \* the response the last step sent to a read request, if
                   \* it handled one

storeVars == <<events, sequence, projections, workers, replay, reply>>

VARIABLES
    state,              \* this.state
    failureCount,       \* this.failureCount
    successCount,       \* this.successCount
    nextAttempt,        \* this.nextAttempt
    now,                \* Date.now()
    calls,              \* per caller: the wrapped request it awaits, if any
    last,               \* what the last step did: the operation, the state it
                        \* started from, whether it invoked the wrapped
                        \* request, the onStateChange arguments it emitted
    consecutiveFailures,\* failures of the wrapped request since the last
                        \* success or reset()
    halfOpenSuccesses   \* successes of the wrapped request observed since
                        \* the breaker last entered HALF_OPEN

breakerVars == <<state, failureCount, successCount, nextAttempt, now, calls, last,
                 consecutiveFailures, halfOpenSuccesses>>

VARIABLES
    requests,      \* the executions of POST /orders, one record per slot;
                   \* the uuidv4() order id of the request in slot r is
                   \* modelled as r
    dbQueue,       \* the executions whose query waits in the queue of the
                   \* order service's one Client, oldest first
    tx,            \* the transaction block of that connection
    orders,        \* tables orders and order_items as the connection sees
                   \* them: per order id, its status and its item rows
    durable,       \* the same tables as last committed
    published,     \* the events the order service has published
    inbox,         \* payment events published and not yet handled by the
                   \* order service's subscriptions
    cancels        \* per order id: the cancel request that won its UPDATE
                   \* and has still to publish inventory.restore

orderVars == <<requests, dbQueue, tx, orders, durable, published, inbox, cancels>>

vars == <<storeVars, breakerVars, orderVars>>

NoPayload == [id |-> 0, status |-> "none", amount |-> 0]

IdleWorker ==
    [pc |-> "idle", eventType |-> "none", eventData |-> NoPayload,
     aggregateId |-> <<"none">>, aggregateType |-> "none", eventId |-> 0,
     nextVersion |-> 0, projIdx |-> 0, projected |-> Null,
     stored |-> FALSE, errorAt |-> "none", published |-> FALSE,
     folded |-> {}, saveCalls |-> {}, failedProjections |-> {}]

\* A storeEvent execution that has returned: its locals are gone, what it
\* logged and published remains observable.
Finished(wk) ==
    [IdleWorker EXCEPT !.pc = "done", !.eventId = wk.eventId,
                       !.stored = wk.stored, !.errorAt = wk.errorAt,
                       !.published = wk.published,
                       !.failedProjections = wk.failedProjections]

\* What the promise of a returned storeEvent execution settles to: the try
\* block spans the whole body and the catch block logs the error without
\* rethrowing, so the promise is fulfilled with undefined either way.
storeEventSettled(wk) ==
    [status |-> "fulfilled", value |-> "undefined",
     logged |-> IF wk.errorAt # "none" THEN "Store event error" ELSE "none"]

NoReplay == [response |-> "none", replayedCount |-> 0]

\* The parameters of a read request: route parameters as they stand in the
\* path, query parameters as the decimal text of the query string (<<>> for
\* a parameter that is absent).
NoRequest ==
    [aggregateType |-> "none", aggregateId |-> <<"none">>, fromVersion |-> <<>>,
     eventType |-> "", page |-> <<>>, limit |-> <<>>,
     projectionName |-> "none"]

NoPagination ==
    [currentPage |-> 0, totalPages |-> 0, totalEvents |-> 0,
     hasNext |-> FALSE, hasPrev |-> FALSE]

NoStats ==
    [total_events |-> <<>>, aggregate_types |-> <<>>, event_types |-> <<>>,
     latest_sequence |-> Null]

\* No response: the last step handled no read request.
NoReply ==
    [route |-> "none", status |-> 0, request |-> NoRequest, events |-> <<>>,
     pagination |-> NoPagination, stats |-> NoStats, projectionStats |-> {},
     data |-> Null, snapshots |-> <<>>]

\* The pc of a storeEvent execution whose projection loop stands at index i.
LoopPc(i) == IF i > NumProjections THEN "publish" ELSE "project"

\* storeEvent up to the end of its first query: the id, the aggregate id and
\* type, then the SELECT of the current version; a failed query goes to the
\* catch block.
StartStoreEvent(w, eventType, eventData, ok) ==
    /\ workers[w].pc = "idle"
    /\ w > 1 => workers[w - 1].pc # "idle"
    /\ LET aggregateId == extractAggregateId(eventType, eventData)
           aggregateType == extractAggregateType(eventType)
           wk == [IdleWorker EXCEPT !.eventType = eventType,
                                    !.eventData = eventData,
                                    !.eventId = w,
                                    !.aggregateId = aggregateId,
                                    !.aggregateType = aggregateType]
       IN workers' = [workers EXCEPT ![w] =
             IF ok
             THEN [wk EXCEPT !.pc = "insert",
                             !.nextVersion = MaxVersion(events, aggregateId,
                                                        aggregateType) + 1]
             ELSE Finished([wk EXCEPT !.errorAt = "readVersion"])]
    /\ UNCHANGED <<events, sequence, projections, replay, breakerVars, orderVars>>
    /\ reply' = NoReply

\* A bug the table could have: sequence numbers counted per aggregate, the
\* row numbered by its version.
NewEventRowSequencePerAggregate(wk, seq) ==
    [id |-> wk.eventId, aggregateId |-> wk.aggregateId,
     aggregateType |-> wk.aggregateType, eventType |-> wk.eventType,
     version |-> wk.nextVersion, data |-> wk.eventData,
     sequence |-> wk.nextVersion]

\* The row storeEvent inserts; sequence_number is the next value of the
\* SERIAL.
NewEventRow(wk, seq) ==
    [id |-> wk.eventId, aggregateId |-> wk.aggregateId,
     aggregateType |-> wk.aggregateType, eventType |-> wk.eventType,
     version |-> wk.nextVersion, data |-> wk.eventData, sequence |-> seq]

\* Whether the INSERT of row is rejected by a constraint of table events.
InsertRejected(rows, row) ==
    \/ \E r \in rows : r.id = row.id
    \/ /\ EventsVersionUnique
       /\ \E r \in rows : /\ r.aggregateId = row.aggregateId
                          /\ r.aggregateType = row.aggregateType
                          /\ r.version = row.version

\* A bug the INSERT could have: keeping one row per aggregate, the new row
\* in place of the aggregate's earlier ones.
InsertedRowsOverwrite(rows, row) ==
    {r \in rows : ~ (/\ r.aggregateId = row.aggregateId
                     /\ r.aggregateType = row.aggregateType)} \cup {row}

\* Table events after the INSERT of row.
InsertedRows(rows, row) == rows \cup {row}

\* storeEvent: the INSERT, then the synchronous start of updateProjections
\* (the loop runs to the first projection that lists the event type).
\* The SERIAL is advanced by every INSERT the server executes.
InsertEvent(w, ok) ==
    /\ workers[w].pc = "insert"
    /\ LET wk == workers[w]
           row == NewEventRow(wk, sequence + 1)
           first == NextInterested(0, wk.eventType)
       IN IF ok /\ ~ InsertRejected(events, row)
          THEN /\ events' = InsertedRows(events, row)
               /\ sequence' = sequence + 1
               /\ workers' = [workers EXCEPT ![w] =
                     [@ EXCEPT !.pc = LoopPc(first), !.projIdx = first,
                               !.stored = TRUE]]
          ELSE /\ events' = events
               /\ sequence' = IF ok THEN sequence + 1 ELSE sequence
               /\ workers' = [workers EXCEPT ![w] =
                     Finished([@ EXCEPT !.errorAt = "insert"])]
    /\ UNCHANGED <<projections, replay, breakerVars, orderVars>>
    /\ reply' = NoReply

\* updateProjections, one interested projection: project() awaits
\* getProjection (null when the query fails) and returns the fold; a null
\* fold skips saveProjection.
ProjectStep(w, ok) ==
    /\ workers[w].pc = "project"
    /\ LET wk == workers[w]
           name == ProjectionOrder[wk.projIdx]
           existing == IF ok
                       THEN getProjectionRow(projections, name,
                                ProjectionReadKey(name, wk.aggregateId))
                       ELSE Null
           data == project(name, wk.eventType, wk.eventData, existing)
           next == AfterProjection(wk.projIdx, wk.eventType, FALSE)
       IN workers' = [workers EXCEPT ![w] =
             IF data # Null
             THEN [@ EXCEPT !.pc = "save", !.projected = data,
                            !.folded = @ \cup {name}]
             ELSE [@ EXCEPT !.pc = LoopPc(next), !.projIdx = next,
                            !.folded = @ \cup {name}]]
    /\ UNCHANGED <<events, sequence, projections, replay, breakerVars, orderVars>>
    /\ reply' = NoReply

\* Whether the upsert of saveProjection is executed by the server: the
\* connection works and the ON CONFLICT target has an arbiter index.
UpsertAccepted(ok) == ok /\ ProjectionsArbiterIndex

\* A bug saveProjection and the loop could have: no catch, so that a
\* rejected upsert reaches the catch block of storeEvent.
AfterSaveRethrow(wk, name, accepted) ==
    IF accepted
    THEN LET next == AfterProjection(wk.projIdx, wk.eventType, FALSE)
         IN [wk EXCEPT !.pc = LoopPc(next), !.projIdx = next, !.projected = Null,
                       !.saveCalls = @ \cup {name}]
    ELSE Finished([wk EXCEPT !.errorAt = "updateProjections",
                             !.failedProjections = @ \cup {name}])

\* The storeEvent execution after saveProjection has returned: the error of
\* a rejected upsert is caught and logged by saveProjection, and the loop
\* goes on.
AfterSave(wk, name, accepted) ==
    LET next == AfterProjection(wk.projIdx, wk.eventType, ~ accepted)
    IN [wk EXCEPT !.pc = LoopPc(next), !.projIdx = next, !.projected = Null,
                  !.saveCalls = @ \cup {name},
                  !.failedProjections = IF accepted THEN @ ELSE @ \cup {name}]

\* A bug saveProjection could have: a plain INSERT without the ON CONFLICT
\* clause, which the projections table (PRIMARY KEY (id) only) accepts.
saveProjectionPlainInsert(rows, name, aggregateId, data, eventId, ok) ==
    IF ok
    THEN rows \cup {[name |-> name, aggregateId |-> aggregateId, data |-> data,
                     version |-> 1, lastEventId |-> eventId]}
    ELSE rows

\* saveProjection: table projections after the call.  The upsert is
\* executed when the server accepts it; any error is caught and logged, and
\* the table stays as it was.
saveProjection(rows, name, aggregateId, data, eventId, ok) ==
    IF UpsertAccepted(ok)
    THEN upsertProjection(rows, name, aggregateId, data, eventId)
    ELSE rows

\* updateProjections, saveProjection of the current projection: the upsert
\* under the event's aggregateId.
SaveStep(w, ok) ==
    /\ workers[w].pc = "save"
    /\ LET wk == workers[w]
           name == ProjectionOrder[wk.projIdx]
           accepted == UpsertAccepted(ok)
       IN /\ projections' = saveProjection(projections, name, wk.aggregateId,
                                           wk.projected[1], wk.eventId, ok)
          /\ workers' = [workers EXCEPT ![w] = AfterSave(wk, name, accepted)]
    /\ UNCHANGED <<events, sequence, replay, breakerVars, orderVars>>
    /\ reply' = NoReply

\* storeEvent: publish of event.stored; a failed publish goes to the catch
\* block.
PublishStored(w, ok) ==
    /\ workers[w].pc = "publish"
    /\ workers' = [workers EXCEPT ![w] =
          IF ok THEN Finished([@ EXCEPT !.published = TRUE])
                ELSE Finished([@ EXCEPT !.errorAt = "publish"])]
    /\ UNCHANGED <<events, sequence, projections, replay, breakerVars, orderVars>>
    /\ reply' = NoReply

\* A bug the SELECT of the replay route could have: no condition on
\* sequence_number, so that every replay starts at the first event.
ReplayRowsFromStart(rows, name, fromSequence) ==
    SortBySequence({r \in rows : r.eventType \in ProjectionEventTypes(name)})

\* The SELECT of the replay route: the rows at or above fromSequence whose
\* type the projection lists, in ascending sequence order.
ReplayRows(rows, name, fromSequence) ==
    SortBySequence({r \in rows : /\ r.sequence >= fromSequence
                                  /\ r.eventType \in ProjectionEventTypes(name)})

\* A bug the replay route could have: writing the snapshot itself with a
\* plain INSERT instead of calling saveProjection.
ReplaySavePlainInsert(table, name, event, data, ok) ==
    saveProjectionPlainInsert(table, name, event.aggregateId, data, event.id, ok)

\* The saveProjection call of the replay loop: under the row's aggregate_id,
\* with the row's id as last event.
ReplaySave(table, name, event, data, ok) ==
    saveProjection(table, name, event.aggregateId, data, event.id, ok)

\* The loop of the replay route over the selected rows, from row i on:
\* project() (getProjection, then the fold) and, for a non-null fold,
\* saveProjection and replayedCount++.  The queries of the rows before
\* index lost reach the server, those from lost on fail (the connection is
\* lost): getProjection then returns null and saveProjection swallows its
\* error.  The result is the projections table and the count at the end
\* of the loop.
RECURSIVE ReplayLoop(_, _, _, _, _, _)
ReplayLoop(rows, i, name, table, count, lost) ==
    IF i > Len(rows) THEN [projections |-> table, replayedCount |-> count]
    ELSE LET event == rows[i]
             ok == i < lost
             existing == IF ok
                         THEN getProjectionRow(table, name,
                                  ProjectionReadKey(name, event.aggregateId))
                         ELSE Null
             data == project(name, event.eventType, event.data, existing)
         IN IF data = Null
            THEN ReplayLoop(rows, i + 1, name, table, count, lost)
            ELSE ReplayLoop(rows, i + 1, name,
                            ReplaySave(table, name, event, data[1], ok),
                            count + 1, lost)

\* A bug the replay route could have: a rebuild that first clears a table,
\* and clears the events table.
ReplayClearsLog(name, fromSequence, lost) ==
    /\ ProjectionEventTypes(name) # {}
    /\ lost > 0
    /\ LET rows == ReplayRows(events, name, fromSequence)
           end == ReplayLoop(rows, 1, name, projections, 0, lost)
       IN /\ replay' = [response |-> "200", replayedCount |-> end.replayedCount]
          /\ projections' = end.projections
    /\ events' = {}
    /\ UNCHANGED <<sequence, workers, breakerVars, orderVars>>
    /\ reply' = NoReply

\* The replay route: 404 for a projection that is not registered, 500 when
\* the SELECT of the events fails (lost = 0), else the loop and the 200
\* response with eventsReplayed.
Replay(name, fromSequence, lost) ==
    /\ IF ProjectionEventTypes(name) = {}
       THEN /\ replay' = [response |-> "404", replayedCount |-> 0]
            /\ projections' = projections
       ELSE IF lost = 0
       THEN /\ replay' = [response |-> "500", replayedCount |-> 0]
            /\ projections' = projections
       ELSE LET rows == ReplayRows(events, name, fromSequence)
                end == ReplayLoop(rows, 1, name, projections, 0, lost)
            IN /\ replay' = [response |-> "200",
                             replayedCount |-> end.replayedCount]
               /\ projections' = end.projections
    /\ UNCHANGED <<events, sequence, workers, breakerVars, orderVars>>
    /\ reply' = NoReply

ReplayNames == {"user-summary", "order-summary", "analytics", "unregistered"}

\* A storeEvent call that starts when no other call is in progress.
StartStoreEventAlone(w, eventType, eventData, ok) ==
    /\ \A v \in Workers : workers[v].pc \in {"idle", "done"}
    /\ StartStoreEvent(w, eventType, eventData, ok)

\* Concurrent storeEvent executions.
StoreNext ==
    \/ \E w \in Workers, t \in InputEventTypes, d \in Payloads, ok \in BOOLEAN :
          StartStoreEvent(w, t, d, ok)
    \/ \E w \in Workers, ok \in BOOLEAN : InsertEvent(w, ok)
    \/ \E w \in Workers, ok \in BOOLEAN : ProjectStep(w, ok)
    \/ \E w \in Workers, ok \in BOOLEAN : SaveStep(w, ok)
    \/ \E w \in Workers, ok \in BOOLEAN : PublishStored(w, ok)

\* storeEvent calls handled one after the other, and replay requests
\* arriving at any moment.
ReplayNext ==
    \/ \E w \in Workers, t \in InputEventTypes, d \in Payloads, ok \in BOOLEAN :
          StartStoreEventAlone(w, t, d, ok)
    \/ \E w \in Workers, ok \in BOOLEAN : InsertEvent(w, ok)
    \/ \E w \in Workers, ok \in BOOLEAN : ProjectStep(w, ok)
    \/ \E w \in Workers, ok \in BOOLEAN : SaveStep(w, ok)
    \/ \E w \in Workers, ok \in BOOLEAN : PublishStored(w, ok)
    \/ \E name \in ReplayNames, fromSequence \in 1..MaxFromSequence,
          lost \in 0..(Cardinality(events) + 1) :
          Replay(name, fromSequence, lost)

\* Event types fed to storeEvent in the runs without faults: one listed by
\* user-summary and analytics, one by order-summary and analytics, one by
\* order-summary alone.
ScenarioEventTypes == {"user.created", "order.created", "order.status_changed"}

\* storeEvent calls handled one after the other and replay requests, with a
\* database and a broker that answer every request.
ReliableNext ==
    \/ \E w \in Workers, t \in ScenarioEventTypes, d \in Payloads :
          StartStoreEventAlone(w, t, d, TRUE)
    \/ \E w \in Workers : InsertEvent(w, TRUE)
    \/ \E w \in Workers : ProjectStep(w, TRUE)
    \/ \E w \in Workers : SaveStep(w, TRUE)
    \/ \E w \in Workers : PublishStored(w, TRUE)
    \/ \E name \in ReplayNames, fromSequence \in 1..MaxFromSequence :
          Replay(name, fromSequence, Cardinality(events) + 1)

\* Event types fed to the overlapping storeEvent executions of the runs
\* without faults: one listed by two projections, one by a single one.
OverlapEventTypes == {"user.created", "order.status_changed"}

\* A storeEvent call that starts while at most one other call is in
\* progress: executions overlap in pairs.
StartStoreEventOverlapping(w, eventType, eventData, ok) ==
    /\ Cardinality({v \in Workers : workers[v].pc \notin {"idle", "done"}}) <= 1
    /\ StartStoreEvent(w, eventType, eventData, ok)

\* Overlapping storeEvent executions and replay requests, with a database
\* and a broker that answer every request.
ReliableConcurrentNext ==
    \/ \E w \in Workers, t \in OverlapEventTypes, d \in Payloads :
          StartStoreEventOverlapping(w, t, d, TRUE)
    \/ \E w \in Workers : InsertEvent(w, TRUE)
    \/ \E w \in Workers : ProjectStep(w, TRUE)
    \/ \E w \in Workers : SaveStep(w, TRUE)
    \/ \E w \in Workers : PublishStored(w, TRUE)
    \/ \E name \in ReplayNames, fromSequence \in 1..MaxFromSequence :
          Replay(name, fromSequence, Cardinality(events) + 1)

\* ----------------------------------------------------- event store: reads
\* The decimal text of n: pg delivers a bigint, the type of COUNT, as text.
RECURSIVE DecimalText(_)
DecimalText(n) ==
    IF n < 10 THEN <<n>> ELSE Append(DecimalText(n \div 10), n % 10)

\* parseInt has no number to give for an absent parameter.
NaN == NoNum

\* parseInt of a decimal text.
RECURSIVE parseInt(_)
parseInt(s) ==
    IF s = <<>> THEN NaN
    ELSE IF Len(s) = 1 THEN s[1]
    ELSE 10 * parseInt(SubSeq(s, 1, Len(s) - 1)) + s[Len(s)]

\* x || d for a number x: d when x is NaN or 0.
OrDefault(x, d) == IF x = NaN \/ x = 0 THEN d ELSE x

\* Math.ceil(a / b) for a >= 0, b > 0.
Ceil(a, b) == (a + b - 1) \div b

Reverse(s) == [i \in 1..Len(s) |-> s[Len(s) + 1 - i]]

\* A bug the query could have: event_version > $3 in place of >=.
AggregateRowsAfterVersion(rows, aggregateType, aggregateId, fromVersion) ==
    {r \in rows : /\ r.aggregateType = aggregateType
                  /\ r.aggregateId = aggregateId
                  /\ r.version > fromVersion}

\* WHERE aggregate_type = $1 AND aggregate_id = $2 AND event_version >= $3
AggregateRows(rows, aggregateType, aggregateId, fromVersion) ==
    {r \in rows : /\ r.aggregateType = aggregateType
                  /\ r.aggregateId = aggregateId
                  /\ r.version >= fromVersion}

\* The orders in which ORDER BY event_version ASC can deliver rows: rows of
\* one version come in an order the query does not fix.
VersionOrders(rows) ==
    LET n == Cardinality(rows)
    IN {s \in [1..n -> rows] :
          /\ \A i \in 1..n : \A j \in 1..n : i # j => s[i] # s[j]
          /\ \A i \in 1..n : \A j \in 1..n : i < j => s[i].version <= s[j].version}

\* GET /events/:aggregateType/:aggregateId
GetAggregateEvents(aggregateType, aggregateId, fromVersionText, ok) ==
    /\ LET fromVersion == OrDefault(parseInt(fromVersionText), 1)
       IN \E result \in VersionOrders(AggregateRows(events, aggregateType,
                                                    aggregateId, fromVersion)) :
             reply' =
                IF ok
                THEN [NoReply EXCEPT
                        !.route = "aggregateEvents", !.status = 200,
                        !.request = [NoRequest EXCEPT
                                       !.aggregateType = aggregateType,
                                       !.aggregateId = aggregateId,
                                       !.fromVersion = fromVersionText],
                        !.events = result]
                ELSE [NoReply EXCEPT !.route = "aggregateEvents", !.status = 500]
    /\ UNCHANGED <<events, sequence, projections, workers, replay, breakerVars, orderVars>>

\* WHERE event_type = $1, when the request names an event type.
MatchingRows(rows, eventType) ==
    IF eventType # "" THEN {r \in rows : r.eventType = eventType} ELSE rows

\* A bug the page query could have: the page cut from the whole table, the
\* filter applied to the page.
EventsPageFilterAfterCut(rows, eventType, limit, offset) ==
    LET sorted == Reverse(SortBySequence(rows))
        last_ == IF offset + limit < Len(sorted) THEN offset + limit ELSE Len(sorted)
    IN SelectSeq(SubSeq(sorted, offset + 1, last_),
                 LAMBDA r : eventType # "" => r.eventType = eventType)

\* SELECT * FROM events [WHERE ...] ORDER BY sequence_number DESC
\* LIMIT limit OFFSET offset
EventsPage(rows, eventType, limit, offset) ==
    LET sorted == Reverse(SortBySequence(MatchingRows(rows, eventType)))
        last_ == IF offset + limit < Len(sorted) THEN offset + limit ELSE Len(sorted)
    IN SubSeq(sorted, offset + 1, last_)

\* The default of the limit parameter.
DefaultLimit == 50

\* GET /events: the page query and the count query, queued together on the
\* one database connection, then the pagination object.
GetEvents(eventType, pageText, limitText, ok) ==
    /\ LET page == OrDefault(parseInt(pageText), 1)
           limit == OrDefault(parseInt(limitText), DefaultLimit)
           offset == (page - 1) * limit
           count == DecimalText(Cardinality(MatchingRows(events, eventType)))
           totalEvents == parseInt(count)
           totalPages == Ceil(totalEvents, limit)
       IN reply' =
             IF ok
             THEN [NoReply EXCEPT
                     !.route = "events", !.status = 200,
                     !.request = [NoRequest EXCEPT !.eventType = eventType,
                                                   !.page = pageText,
                                                   !.limit = limitText],
                     !.events = EventsPage(events, eventType, limit, offset),
                     !.pagination = [currentPage |-> page,
                                     totalPages |-> totalPages,
                                     totalEvents |-> totalEvents,
                                     hasNext |-> page < totalPages,
                                     hasPrev |-> page > 1]]
             ELSE [NoReply EXCEPT !.route = "events", !.status = 500]
    /\ UNCHANGED <<events, sequence, projections, workers, replay, breakerVars, orderVars>>

\* A bug the statistics query could have: the columns counted per row, not
\* per distinct value.
EventStatsNotDistinct(rows) ==
    [total_events |-> DecimalText(Cardinality(rows)),
     aggregate_types |-> DecimalText(Cardinality(rows)),
     event_types |-> DecimalText(Cardinality(rows)),
     latest_sequence |->
        IF rows = {} THEN Null
        ELSE Some(CHOOSE s \in {r.sequence : r \in rows} :
                     \A r \in rows : r.sequence <= s)]

\* SELECT COUNT(*), COUNT(DISTINCT aggregate_type),
\* COUNT(DISTINCT event_type), MAX(sequence_number) FROM events: the counts
\* come as decimal text, the maximum as a number, null on an empty table.
EventStats(rows) ==
    [total_events |-> DecimalText(Cardinality(rows)),
     aggregate_types |-> DecimalText(Cardinality({r.aggregateType : r \in rows})),
     event_types |-> DecimalText(Cardinality({r.eventType : r \in rows})),
     latest_sequence |->
        IF rows = {} THEN Null
        ELSE Some(CHOOSE s \in {r.sequence : r \in rows} :
                     \A r \in rows : r.sequence <= s)]

\* SELECT projection_name, COUNT(*) FROM projections GROUP BY projection_name
ProjectionStats(rows) ==
    {[projection_name |-> n,
      count |-> DecimalText(Cardinality({r \in rows : r.name = n}))] :
        n \in {r.name : r \in rows}}

\* GET /stats: both queries queued together on the one connection.
GetStats(ok) ==
    /\ reply' =
          IF ok
          THEN [NoReply EXCEPT !.route = "stats", !.status = 200,
                               !.stats = EventStats(events),
                               !.projectionStats = ProjectionStats(projections)]
          ELSE [NoReply EXCEPT !.route = "stats", !.status = 500]
    /\ UNCHANGED <<events, sequence, projections, workers, replay, breakerVars, orderVars>>

\* A bug the route could have: no 404 branch, an empty object sent for a
\* missing snapshot.
GetProjectionNoNotFound(projectionName, aggregateId, ok) ==
    /\ LET projection == IF ok
                         THEN getProjectionRow(projections, projectionName,
                                               aggregateId)
                         ELSE Null
       IN reply' = [NoReply EXCEPT
                      !.route = "projection", !.status = 200,
                      !.request = [NoRequest EXCEPT
                                     !.projectionName = projectionName,
                                     !.aggregateId = aggregateId],
                      !.data = IF projection = Null THEN Some(EmptySnapshot)
                               ELSE projection]
    /\ UNCHANGED <<events, sequence, projections, workers, replay, breakerVars, orderVars>>

\* GET /projections/:projectionName/:aggregateId: getProjection gives null
\* for a missing row and for a failed query alike.
GetProjection(projectionName, aggregateId, ok) ==
    /\ LET projection == IF ok
                         THEN getProjectionRow(projections, projectionName,
                                               aggregateId)
                         ELSE Null
           request == [NoRequest EXCEPT !.projectionName = projectionName,
                                        !.aggregateId = aggregateId]
       IN reply' =
             IF projection = Null
             THEN [NoReply EXCEPT !.route = "projection", !.status = 404,
                                  !.request = request]
             ELSE [NoReply EXCEPT !.route = "projection", !.status = 200,
                                  !.request = request, !.data = projection]
    /\ UNCHANGED <<events, sequence, projections, workers, replay, breakerVars, orderVars>>

\* The runs take a read request in the states a step of storeEvent leaves:
\* a read changes nothing but the response, so a read that follows another
\* read sees the tables the first one saw.
ResponseTaken == reply = NoReply

\* Overlapping storeEvent executions, whose version query and INSERT can
\* fail, and statistics requests arriving at any moment.
StatsNext ==
    \/ \E w \in Workers, t \in ScenarioEventTypes, d \in Payloads, ok \in BOOLEAN :
          StartStoreEventOverlapping(w, t, d, ok)
    \/ \E w \in Workers, ok \in BOOLEAN : InsertEvent(w, ok)
    \/ \E w \in Workers : ProjectStep(w, TRUE)
    \/ \E w \in Workers : SaveStep(w, TRUE)
    \/ \E w \in Workers : PublishStored(w, TRUE)
    \/ ResponseTaken /\ \E ok \in BOOLEAN : GetStats(ok)

\* Requests made to GET /events/:aggregateType/:aggregateId in the model:
\* both aggregate types against the id of an order and of a user,
\* fromVersion absent or the text of a version.
ReadAggregateTypes == {"User", "Order"}
ReadAggregateIds == {<<"order", 1>>, <<"user", 1>>}
FromVersionTexts == {<<>>} \cup {DecimalText(v) : v \in 1..MaxEvents}

\* Overlapping storeEvent executions and reads of one aggregate's events,
\* with a database that answers every storeEvent query.
AggregateReadNext ==
    \/ \E w \in Workers, t \in OverlapEventTypes, d \in Payloads :
          StartStoreEventOverlapping(w, t, d, TRUE)
    \/ \E w \in Workers : InsertEvent(w, TRUE)
    \/ \E w \in Workers : ProjectStep(w, TRUE)
    \/ \E w \in Workers : SaveStep(w, TRUE)
    \/ \E w \in Workers : PublishStored(w, TRUE)
    \/ /\ ResponseTaken
       /\ \E aggregateType \in ReadAggregateTypes, aggregateId \in ReadAggregateIds,
             fromVersion \in FromVersionTexts, ok \in BOOLEAN :
             GetAggregateEvents(aggregateType, aggregateId, fromVersion, ok)

\* Requests made to GET /events in the model: no filter, a type that is
\* stored, a type that is not; page and limit absent or the text of a
\* number, pages up to one past the last.
ReadEventTypes == {"", "user.created", "user.login"}
PageTexts == {<<>>} \cup {DecimalText(p) : p \in 1..(MaxEvents + 1)}
LimitTexts == {<<>>} \cup {DecimalText(s) : s \in 1..MaxEvents}

\* storeEvent calls handled one after the other and reads of pages of the
\* log, with a database that answers every storeEvent query.
PageReadNext ==
    \/ \E w \in Workers, t \in ScenarioEventTypes, d \in Payloads :
          StartStoreEventAlone(w, t, d, TRUE)
    \/ \E w \in Workers : InsertEvent(w, TRUE)
    \/ \E w \in Workers : ProjectStep(w, TRUE)
    \/ \E w \in Workers : SaveStep(w, TRUE)
    \/ \E w \in Workers : PublishStored(w, TRUE)
    \/ /\ ResponseTaken
       /\ \E eventType \in ReadEventTypes, page \in PageTexts, limit \in LimitTexts,
             ok \in BOOLEAN :
             GetEvents(eventType, page, limit, ok)

\* An event type that has no entry in the tables of extractAggregateId and
\* extractAggregateType and that no projection lists.
UnlistedEventType == "cart.updated"

\* storeEvent called, one call at a time, with a listed and with an
\* unlisted event type, every query reaching the server.
UnlistedTypeNext ==
    \/ \E w \in Workers, t \in {"user.created", "order.created", UnlistedEventType},
          d \in Payloads :
          StartStoreEventAlone(w, t, d, TRUE)
    \/ \E w \in Workers : InsertEvent(w, TRUE)
    \/ \E w \in Workers : ProjectStep(w, TRUE)
    \/ \E w \in Workers : SaveStep(w, TRUE)
    \/ \E w \in Workers : PublishStored(w, TRUE)

\* The orders in which a SELECT without ORDER BY can deliver rows: any.
AnyOrders(rows) ==
    LET n == Cardinality(rows)
    IN {s \in [1..n -> rows] : \A i \in 1..n : \A j \in 1..n : i # j => s[i] # s[j]}

\* GET /projections/:projectionName: the rows of the projection, in the
\* order the server delivers them.
GetProjections(projectionName, ok) ==
    /\ \E result \in AnyOrders({r \in projections : r.name = projectionName}) :
          reply' =
             IF ok
             THEN [NoReply EXCEPT
                     !.route = "projections", !.status = 200,
                     !.request = [NoRequest EXCEPT
                                    !.projectionName = projectionName],
                     !.snapshots = result]
             ELSE [NoReply EXCEPT !.route = "projections", !.status = 500]
    /\ UNCHANGED <<events, sequence, projections, workers, replay, breakerVars, orderVars>>

\* Requests made to GET /projections/:projectionName/:aggregateId in the
\* model: each registered projection against the key the analytics fold
\* reads and the ids of a user and of an order.
ReadProjectionIds == {<<"global">>, <<"user", 1>>, <<"order", 1>>}

\* storeEvent calls handled one after the other, every query of theirs
\* reaching the server, and reads of single snapshots, whose query can fail.
SnapshotReadNext ==
    \/ \E w \in Workers, t \in ScenarioEventTypes, d \in Payloads :
          StartStoreEventAlone(w, t, d, TRUE)
    \/ \E w \in Workers : InsertEvent(w, TRUE)
    \/ \E w \in Workers : ProjectStep(w, TRUE)
    \/ \E w \in Workers : SaveStep(w, TRUE)
    \/ \E w \in Workers : PublishStored(w, TRUE)
    \/ /\ ResponseTaken
       /\ \E name \in ReplayNames, aggregateId \in ReadProjectionIds,
             ok \in BOOLEAN :
             GetProjection(name, aggregateId, ok)
    \/ /\ ResponseTaken
       /\ \E name \in ReplayNames, ok \in BOOLEAN : GetProjections(name, ok)

\* storeEvent calls handled one after the other and reads of the analytics
\* snapshot, with a database and a broker that answer every request.
AnalyticsReadNext ==
    \/ \E w \in Workers, t \in ScenarioEventTypes, d \in Payloads :
          StartStoreEventAlone(w, t, d, TRUE)
    \/ \E w \in Workers : InsertEvent(w, TRUE)
    \/ \E w \in Workers : ProjectStep(w, TRUE)
    \/ \E w \in Workers : SaveStep(w, TRUE)
    \/ \E w \in Workers : PublishStored(w, TRUE)
    \/ ResponseTaken /\ GetProjection("analytics", <<"global">>, TRUE)

\* ---------------------------------------------------------- circuit breaker
\* Defaults of the constructor (options.x || default).
failureThreshold == 5
successThreshold == 2
timeout == 60000

IdleCall == [pc |-> "idle", startedIn |-> "none"]

\* No response sent yet.
NoResponse == [status |-> 0, error |-> "none"]

\* An execution of POST /orders: where it stands, the number of items of
\* its body, the number of items looked up or inserted so far, the INSERT
\* of the execution that PostgreSQL rejects (0: none, 1: the order row,
\* k + 1: the k-th item row), what ended the product validation, and the
\* response sent.
IdleRequest == [pc |-> "idle", items |-> 0, k |-> 0, bad |-> 0,
                cause |-> "none", response |-> NoResponse]

\* No row of orders with that id.
NoOrder == [status |-> "none", items |-> 0]

\* The breaker's fields as one record, with the callbacks emitted by the
\* code that produced it.
Breaker ==
    [state |-> state, failureCount |-> failureCount, successCount |-> successCount,
     nextAttempt |-> nextAttempt, emitted |-> <<>>]

\* The state after construction: empty tables (createTables), no storeEvent
\* or replay in progress; the breaker as its constructor leaves it, with the
\* clock at 0.
Init ==
    /\ events = {}
    /\ sequence = 0
    /\ projections = {}
    /\ workers = [w \in Workers |-> IdleWorker]
    /\ replay = NoReplay
    /\ reply = NoReply
    /\ state = "CLOSED"
    /\ failureCount = 0
    /\ successCount = 0
    /\ now = 0
    /\ nextAttempt = 0
    /\ calls = [c \in Callers |-> IdleCall]
    /\ last = [op |-> "init", from |-> "CLOSED", invoked |-> FALSE, emitted |-> <<>>]
    /\ consecutiveFailures = 0
    /\ halfOpenSuccesses = 0
    /\ requests = [r \in Callers |-> IdleRequest]
    /\ dbQueue = <<>>
    /\ tx = "none"
    /\ orders = [o \in Callers |-> NoOrder]
    /\ durable = [o \in Callers |-> NoOrder]
    /\ published = {}
    /\ inbox = {}
    /\ cancels = {}

\* A bug of call(): the OPEN branch always throws, the breaker never
\* probes.
callGateNeverProbes(b, t) ==
    IF b.state = "OPEN"
    THEN [rejected |-> TRUE, breaker |-> b]
    ELSE [rejected |-> FALSE, breaker |-> b]

\* A bug of call(): the OPEN branch without the test of Date.now().
callGateNoClock(b, t) ==
    IF b.state = "OPEN"
    THEN [rejected |-> FALSE,
          breaker |-> [b EXCEPT !.state = "HALF_OPEN", !.successCount = 0,
                                !.emitted = <<"HALF_OPEN">>]]
    ELSE [rejected |-> FALSE, breaker |-> b]

\* A bug of call(): Date.now() <= this.nextAttempt in place of <.
callGateLateProbe(b, t) ==
    IF b.state = "OPEN"
    THEN IF t <= b.nextAttempt
         THEN [rejected |-> TRUE, breaker |-> b]
         ELSE [rejected |-> FALSE,
               breaker |-> [b EXCEPT !.state = "HALF_OPEN", !.successCount = 0,
                                     !.emitted = <<"HALF_OPEN">>]]
    ELSE [rejected |-> FALSE, breaker |-> b]

\* call(), the part before the wrapped request: in OPEN, throw while
\* Date.now() < nextAttempt, else switch to HALF_OPEN.
callGate(b, t) ==
    IF b.state = "OPEN"
    THEN IF t < b.nextAttempt
         THEN [rejected |-> TRUE, breaker |-> b]
         ELSE [rejected |-> FALSE,
               breaker |-> [b EXCEPT !.state = "HALF_OPEN", !.successCount = 0,
                                     !.emitted = <<"HALF_OPEN">>]]
    ELSE [rejected |-> FALSE, breaker |-> b]

\* A bug of onSuccess: failureCount is not reset.
onSuccessKeepsFailures(b) ==
    IF b.state = "HALF_OPEN"
    THEN IF b.successCount + 1 >= successThreshold
         THEN [b EXCEPT !.state = "CLOSED", !.successCount = 0,
                        !.emitted = <<"CLOSED">>]
         ELSE [b EXCEPT !.successCount = @ + 1]
    ELSE b

\* A bug of onSuccess: successCount > successThreshold in place of >=.
onSuccessLateClose(b) ==
    LET b0 == [b EXCEPT !.failureCount = 0]
    IN IF b0.state = "HALF_OPEN"
       THEN IF b0.successCount + 1 > successThreshold
            THEN [b0 EXCEPT !.state = "CLOSED", !.successCount = 0,
                            !.emitted = <<"CLOSED">>]
            ELSE [b0 EXCEPT !.successCount = @ + 1]
       ELSE b0

onSuccess(b) ==
    LET b0 == [b EXCEPT !.failureCount = 0]
    IN IF b0.state = "HALF_OPEN"
       THEN IF b0.successCount + 1 >= successThreshold
            THEN [b0 EXCEPT !.state = "CLOSED", !.successCount = 0,
                            !.emitted = <<"CLOSED">>]
            ELSE [b0 EXCEPT !.successCount = @ + 1]
       ELSE b0

\* A bug of onFailure: the switch to OPEN without the onStateChange call.
onFailureSilent(b, t) ==
    LET b0 == [b EXCEPT !.failureCount = @ + 1]
    IN IF b0.state = "HALF_OPEN" \/ b0.failureCount >= failureThreshold
       THEN [b0 EXCEPT !.state = "OPEN", !.nextAttempt = t + timeout]
       ELSE b0

\* A bug of onFailure: failureCount > failureThreshold in place of >=.
onFailureLateOpen(b, t) ==
    LET b0 == [b EXCEPT !.failureCount = @ + 1]
    IN IF b0.state = "HALF_OPEN" \/ b0.failureCount > failureThreshold
       THEN [b0 EXCEPT !.state = "OPEN", !.nextAttempt = t + timeout,
                       !.emitted = <<"OPEN">>]
       ELSE b0

\* A bug of onFailure: the threshold test alone, without HALF_OPEN.
onFailureThresholdOnly(b, t) ==
    LET b0 == [b EXCEPT !.failureCount = @ + 1]
    IN IF b0.failureCount >= failureThreshold
       THEN [b0 EXCEPT !.state = "OPEN", !.nextAttempt = t + timeout,
                       !.emitted = <<"OPEN">>]
       ELSE b0

onFailure(b, t) ==
    LET b0 == [b EXCEPT !.failureCount = @ + 1]
    IN IF b0.state = "HALF_OPEN" \/ b0.failureCount >= failureThreshold
       THEN [b0 EXCEPT !.state = "OPEN", !.nextAttempt = t + timeout,
                       !.emitted = <<"OPEN">>]
       ELSE b0

\* A bug of reset(): the counters zeroed, the state left as it is.
resetCountersOnly(b, t) ==
    [b EXCEPT !.failureCount = 0, !.successCount = 0, !.nextAttempt = t,
              !.emitted = <<"CLOSED">>]

reset(b, t) ==
    [b EXCEPT !.state = "CLOSED", !.failureCount = 0, !.successCount = 0,
              !.nextAttempt = t, !.emitted = <<"CLOSED">>]

\* The fields of the breaker become those of record b.
SetBreaker(b) ==
    /\ state' = b.state
    /\ failureCount' = b.failureCount
    /\ successCount' = b.successCount
    /\ nextAttempt' = b.nextAttempt

EntersHalfOpen(b) == state # "HALF_OPEN" /\ b.state = "HALF_OPEN"

\* call() up to its await: rejected with the circuit-open error, or the
\* wrapped request is invoked and the caller awaits it.
Call(c) ==
    /\ calls[c].pc = "idle"
    /\ LET g == callGate(Breaker, now)
       IN /\ SetBreaker(g.breaker)
          /\ calls' = IF g.rejected THEN calls
                      ELSE [calls EXCEPT ![c] = [pc |-> "pending",
                                                 startedIn |-> g.breaker.state]]
          /\ last' = [op |-> IF g.rejected THEN "reject" ELSE "invoke",
                      from |-> state, invoked |-> ~ g.rejected,
                      emitted |-> g.breaker.emitted]
          /\ halfOpenSuccesses' =
                IF EntersHalfOpen(g.breaker) THEN 0 ELSE halfOpenSuccesses
    /\ UNCHANGED <<now, consecutiveFailures, storeVars, orderVars>>

\* call(), the wrapped request resolved: onSuccess.
Succeed(c) ==
    /\ calls[c].pc = "pending"
    /\ LET b == onSuccess(Breaker)
       IN /\ SetBreaker(b)
          /\ last' = [op |-> "success", from |-> state, invoked |-> FALSE,
                      emitted |-> b.emitted]
    /\ calls' = [calls EXCEPT ![c] = IdleCall]
    /\ consecutiveFailures' = 0
    /\ halfOpenSuccesses' =
          IF state = "HALF_OPEN" THEN halfOpenSuccesses + 1 ELSE halfOpenSuccesses
    /\ UNCHANGED <<now, storeVars, orderVars>>

\* call(), the wrapped request rejected: onFailure.
Fail(c) ==
    /\ calls[c].pc = "pending"
    /\ LET b == onFailure(Breaker, now)
       IN /\ SetBreaker(b)
          /\ last' = [op |-> "failure", from |-> state, invoked |-> FALSE,
                      emitted |-> b.emitted]
    /\ calls' = [calls EXCEPT ![c] = IdleCall]
    /\ consecutiveFailures' = consecutiveFailures + 1
    /\ UNCHANGED <<now, halfOpenSuccesses, storeVars, orderVars>>

Reset ==
    /\ LET b == reset(Breaker, now)
       IN /\ SetBreaker(b)
          /\ last' = [op |-> "reset", from |-> state, invoked |-> FALSE,
                      emitted |-> b.emitted]
    /\ consecutiveFailures' = 0
    /\ UNCHANGED <<now, calls, halfOpenSuccesses, storeVars, orderVars>>

\* Time passes.
Tick ==
    /\ now + TickStep <= MaxNow
    /\ now' = now + TickStep
    /\ last' = [op |-> "tick", from |-> state, invoked |-> FALSE, emitted |-> <<>>]
    /\ UNCHANGED <<state, failureCount, successCount, nextAttempt, calls,
                   consecutiveFailures, halfOpenSuccesses, storeVars, orderVars>>

NoCallPending == \A c \in Callers : calls[c].pc = "idle"

\* A call made when no other call is in flight.
CallAlone(c) == NoCallPending /\ Call(c)

BreakerNext ==
    \/ \E c \in Callers : Call(c)
    \/ \E c \in Callers : Succeed(c)
    \/ \E c \in Callers : Fail(c)
    \/ Reset
    \/ Tick

BreakerSeqNext ==
    \/ \E c \in Callers : CallAlone(c)
    \/ \E c \in Callers : Succeed(c)
    \/ \E c \in Callers : Fail(c)
    \/ Reset
    \/ Tick

\* The dependency behind the wrapped request is unhealthy during the first
\* part of a run and healthy from then on: a request fails only while a
\* breaker opened by the failure can still reach its nextAttempt within the
\* run.
DependencyFailing == now + timeout <= MaxNow

FailWhileUnhealthy(c) == DependencyFailing /\ Fail(c)

\* The breaker in front of a dependency that recovers.
RecoveryNext ==
    \/ \E c \in Callers : Call(c)
    \/ \E c \in Callers : Succeed(c)
    \/ \E c \in Callers : FailWhileUnhealthy(c)
    \/ Reset
    \/ Tick

\* ------------------------------------------------------------ order service
\* The order service: POST /orders behind the product-service breaker and
\* the order transaction, the payment and cancel routes, and the handlers
\* of payment.confirmed and payment.failed.  The product-service breaker
\* is a CircuitBreaker as modelled above; the order service constructs it
\* with failureThreshold 3 and timeout 30000, values that no step of the
\* routes reads.  All queries of the service go through one Client, which
\* sends them to PostgreSQL one at a time in the order they were queued.

\* What CircuitBreaker.call throws when it rejects: an Error whose message
\* begins with these words.
CircuitOpenError == [name |-> "Error", message |-> "Circuit breaker is OPEN"]

\* What the wrapped request of the product-service breaker throws, and
\* call() rethrows after onFailure.
ProductServiceError == [name |-> "Error", message |-> "Product service error"]

\* The catch of the product validation loop: one response for every error.
ProductValidationCatch(error) ==
    [status |-> 503, error |-> "Product service temporarily unavailable"]

ProductNotFound == [status |-> 400, error |-> "Product not found"]
InsufficientStock == [status |-> 400, error |-> "Insufficient stock"]
InvalidBody == [status |-> 400, error |-> "validation"]
OrderCreated == [status |-> 201, error |-> "none"]
InternalError == [status |-> 500, error |-> "Internal server error"]

\* The most items in the body of one request.
MaxItems == 2

\* What the product service answers to one lookup: a product with enough
\* stock, a body without a product, a product with too little stock, or a
\* failure (network error or a status outside 2xx).
ProductOutcomes == {"found", "missing", "insufficient", "error"}

Done(req, cause, response) ==
    [req EXCEPT !.pc = "done", !.cause = cause, !.response = response]

\* The connection and the tables behind it.
Db == [tx |-> tx, orders |-> orders, durable |-> durable]

SetDb(d) ==
    /\ tx' = d.tx
    /\ orders' = d.orders
    /\ durable' = d.durable

\* BEGIN: opens a transaction block; inside one it only warns; inside an
\* aborted one it is rejected like every statement but COMMIT and ROLLBACK.
dbBegin(d) ==
    IF d.tx = "aborted"
    THEN [ok |-> FALSE, db |-> d]
    ELSE [ok |-> TRUE, db |-> [d EXCEPT !.tx = "active"]]

\* An INSERT or UPDATE that leaves the tables as newOrders.  Outside a
\* transaction block it commits on its own; an error inside a block aborts
\* the block.
dbWrite(d, newOrders, accepted) ==
    IF d.tx = "aborted" \/ ~ accepted
    THEN [ok |-> FALSE,
          db |-> [d EXCEPT !.tx = IF d.tx = "none" THEN "none" ELSE "aborted"]]
    ELSE [ok |-> TRUE,
          db |-> [d EXCEPT !.orders = newOrders,
                           !.durable = IF d.tx = "none" THEN newOrders ELSE @]]

\* COMMIT: commits an open block; rolls an aborted block back and reports
\* no error; outside a block it only warns.
dbCommit(d) ==
    [tx |-> "none",
     orders |-> IF d.tx = "aborted" THEN d.durable ELSE d.orders,
     durable |-> IF d.tx = "active" THEN d.orders ELSE d.durable]

\* ROLLBACK: undoes the block, whoever opened it; outside a block it only
\* warns.
dbRollback(d) == [tx |-> "none", orders |-> d.durable, durable |-> d.durable]

OrderEvent(type, orderId, item) ==
    [type |-> type, orderId |-> orderId, item |-> item, status |-> "none"]

HeadOfQueue(r) == dbQueue # <<>> /\ Head(dbQueue) = r

\* The execution queues its next query when the previous one has answered.
Requeue(r) == Append(Tail(dbQueue), r)

\* A request is received in a free slot: its body passes the Joi schema.
\* A slot is free again when its request was answered before BEGIN.
SlotFree(r) ==
    \/ requests[r].pc = "idle"
    \/ requests[r].pc = "done" /\ requests[r].response.status \in {400, 503}

StartOrder(r, n, bad) ==
    /\ SlotFree(r)
    /\ requests' = [requests EXCEPT ![r] =
          [IdleRequest EXCEPT !.pc = "lookup", !.items = n, !.bad = bad]]
    /\ UNCHANGED <<dbQueue, tx, orders, durable, published, inbox, cancels,
                   storeVars, breakerVars>>

\* A request whose body fails the schema.
RejectBody(r) ==
    /\ requests[r].pc = "idle"
    /\ requests' = [requests EXCEPT ![r] = Done(IdleRequest, "validation", InvalidBody)]
    /\ UNCHANGED <<dbQueue, tx, orders, durable, published, inbox, cancels,
                   storeVars, breakerVars>>

\* productServiceBreaker.call for the next item, up to its await: the
\* breaker rejects, and the loop's catch answers; or the lookup is sent.
LookupCall(r) ==
    /\ requests[r].pc = "lookup"
    /\ LET g == callGate(Breaker, now)
       IN /\ SetBreaker(g.breaker)
          /\ requests' = [requests EXCEPT ![r] =
                IF g.rejected
                THEN Done(@, "circuitOpen", ProductValidationCatch(CircuitOpenError))
                ELSE [@ EXCEPT !.pc = "awaitProduct"]]
          /\ last' = [op |-> IF g.rejected THEN "reject" ELSE "invoke",
                      from |-> state, invoked |-> ~ g.rejected,
                      emitted |-> g.breaker.emitted]
          /\ halfOpenSuccesses' =
                IF EntersHalfOpen(g.breaker) THEN 0 ELSE halfOpenSuccesses
    /\ UNCHANGED <<now, calls, consecutiveFailures, storeVars,
                   dbQueue, tx, orders, durable, published, inbox, cancels>>

\* The lookup failed: onFailure, call() rethrows, the loop's catch answers.
LookupFail(r) ==
    /\ requests[r].pc = "awaitProduct"
    /\ LET b == onFailure(Breaker, now)
       IN /\ SetBreaker(b)
          /\ last' = [op |-> "failure", from |-> state, invoked |-> FALSE,
                      emitted |-> b.emitted]
    /\ requests' = [requests EXCEPT ![r] =
          Done(@, "lookupFailed", ProductValidationCatch(ProductServiceError))]
    /\ consecutiveFailures' = consecutiveFailures + 1
    /\ UNCHANGED <<now, calls, halfOpenSuccesses, storeVars,
                   dbQueue, tx, orders, durable, published, inbox, cancels>>

\* The lookup answered: onSuccess, then the checks of the loop body.  After
\* the last item the execution queues BEGIN.
LookupAnswer(r, outcome) ==
    /\ requests[r].pc = "awaitProduct"
    /\ outcome # "error"
    /\ LET b == onSuccess(Breaker)
       IN /\ SetBreaker(b)
          /\ last' = [op |-> "success", from |-> state, invoked |-> FALSE,
                      emitted |-> b.emitted]
    /\ consecutiveFailures' = 0
    /\ halfOpenSuccesses' =
          IF state = "HALF_OPEN" THEN halfOpenSuccesses + 1 ELSE halfOpenSuccesses
    /\ LET req == requests[r]
           lastItem == req.k + 1 = req.items
       IN /\ requests' = [requests EXCEPT ![r] =
                CASE outcome = "missing" -> Done(req, "productMissing", ProductNotFound)
                  [] outcome = "insufficient" -> Done(req, "stock", InsufficientStock)
                  [] OTHER -> [req EXCEPT !.k = IF lastItem THEN 0 ELSE req.k + 1,
                                          !.pc = IF lastItem THEN "begin" ELSE "lookup"]]
          /\ dbQueue' = IF outcome = "found" /\ lastItem
                        THEN Append(dbQueue, r) ELSE dbQueue
    /\ UNCHANGED <<now, calls, storeVars, tx, orders, durable, published,
                   inbox, cancels>>

\* BEGIN answers.  Its rejection is thrown outside the inner try: 500 and
\* no ROLLBACK.
Begin(r) ==
    /\ HeadOfQueue(r)
    /\ requests[r].pc = "begin"
    /\ LET res == dbBegin(Db)
       IN /\ SetDb(res.db)
          /\ requests' = [requests EXCEPT ![r] =
                IF res.ok THEN [@ EXCEPT !.pc = "insertOrder"]
                ELSE Done(@, "database", InternalError)]
          /\ dbQueue' = IF res.ok THEN Requeue(r) ELSE Tail(dbQueue)
    /\ UNCHANGED <<published, inbox, cancels, storeVars, breakerVars>>

\* INSERT INTO orders answers.
InsertOrder(r) ==
    /\ HeadOfQueue(r)
    /\ requests[r].pc = "insertOrder"
    /\ LET res == dbWrite(Db, [orders EXCEPT ![r] = [status |-> "pending", items |-> 0]],
                          requests[r].bad # 1)
       IN /\ SetDb(res.db)
          /\ requests' = [requests EXCEPT ![r].pc =
                IF res.ok THEN "insertItem" ELSE "rollback"]
    /\ dbQueue' = Requeue(r)
    /\ UNCHANGED <<published, inbox, cancels, storeVars, breakerVars>>

\* INSERT INTO order_items answers; the row references the order row.
InsertItem(r) ==
    /\ HeadOfQueue(r)
    /\ requests[r].pc = "insertItem"
    /\ LET req == requests[r]
           res == dbWrite(Db, [orders EXCEPT ![r].items = @ + 1],
                          req.bad # req.k + 2 /\ orders[r].status # "none")
       IN /\ SetDb(res.db)
          /\ requests' = [requests EXCEPT ![r] =
                IF ~ res.ok THEN [req EXCEPT !.pc = "rollback"]
                ELSE IF req.k + 1 = req.items THEN [req EXCEPT !.pc = "commit", !.k = 0]
                ELSE [req EXCEPT !.k = @ + 1]]
    /\ dbQueue' = Requeue(r)
    /\ UNCHANGED <<published, inbox, cancels, storeVars, breakerVars>>

\* COMMIT answers.
Commit(r) ==
    /\ HeadOfQueue(r)
    /\ requests[r].pc = "commit"
    /\ SetDb(dbCommit(Db))
    /\ requests' = [requests EXCEPT ![r].pc = "publishCreated"]
    /\ dbQueue' = Tail(dbQueue)
    /\ UNCHANGED <<published, inbox, cancels, storeVars, breakerVars>>

\* The ROLLBACK of the inner catch answers; the error goes on to the outer
\* catch.
Rollback(r) ==
    /\ HeadOfQueue(r)
    /\ requests[r].pc = "rollback"
    /\ SetDb(dbRollback(Db))
    /\ requests' = [requests EXCEPT ![r] = Done(@, "database", InternalError)]
    /\ dbQueue' = Tail(dbQueue)
    /\ UNCHANGED <<published, inbox, cancels, storeVars, breakerVars>>

\* publish('order.created'); a broker failure is caught by the inner catch.
PublishCreated(r, ok) ==
    /\ requests[r].pc = "publishCreated"
    /\ requests' = [requests EXCEPT ![r].pc =
          IF ok THEN "publishReserve" ELSE "rollback"]
    /\ published' = IF ok THEN published \cup {OrderEvent("order.created", r, 0)}
                    ELSE published
    /\ dbQueue' = IF ok THEN dbQueue ELSE Append(dbQueue, r)
    /\ UNCHANGED <<tx, orders, durable, inbox, cancels, storeVars, breakerVars>>

\* publish('inventory.reserve') for the next item; after the last one the
\* response 201.
PublishReserve(r, ok) ==
    /\ requests[r].pc = "publishReserve"
    /\ LET req == requests[r]
       IN requests' = [requests EXCEPT ![r] =
             IF ~ ok THEN [req EXCEPT !.pc = "rollback"]
             ELSE IF req.k + 1 = req.items THEN Done(req, "none", OrderCreated)
             ELSE [req EXCEPT !.k = @ + 1]]
    /\ published' = IF ok
                    THEN published \cup {OrderEvent("inventory.reserve", r, requests[r].k + 1)}
                    ELSE published
    /\ dbQueue' = IF ok THEN dbQueue ELSE Append(dbQueue, r)
    /\ UNCHANGED <<tx, orders, durable, inbox, cancels, storeVars, breakerVars>>

\* The payment events of the simulated payment, and the status each
\* subscription of setupEventHandlers writes.
PaymentEvents == {"payment.confirmed", "payment.failed"}

HandlerStatus(type) == IF type = "payment.confirmed" THEN "confirmed" ELSE "payment_failed"

\* The routes and handlers below send one query each; they are modelled
\* when no other query is queued on the connection, so that the query is
\* answered at once.
DbIdle == dbQueue = <<>>

\* The id of an order is known outside the route once order.created is
\* published or the response 201 is sent.
OrderIdKnown(o) ==
    \/ OrderEvent("order.created", o, 0) \in published
    \/ requests[o].response = OrderCreated

\* POST /orders/:id/payment for a pending order with the matching amount:
\* the SELECT finds the row, the simulated payment succeeds or not, and
\* the payment event is published.  The route writes no status.
Pay(o, paymentSuccess) ==
    /\ DbIdle
    /\ OrderIdKnown(o)
    /\ orders[o].status = "pending"
    /\ LET type == IF paymentSuccess THEN "payment.confirmed" ELSE "payment.failed"
       IN /\ published' = published \cup {OrderEvent(type, o, 0)}
          /\ inbox' = inbox \cup {[type |-> type, orderId |-> o]}
    /\ UNCHANGED <<requests, dbQueue, tx, orders, durable, cancels,
                   storeVars, breakerVars>>

\* The subscription of a payment event receives it: updateOrderStatus, an
\* UPDATE by id alone, then order.status_changed.
HandlePayment(m) ==
    /\ DbIdle
    /\ m \in inbox
    /\ m.type \in PaymentEvents
    /\ LET status == HandlerStatus(m.type)
           o == m.orderId
           res == dbWrite(Db, IF orders[o].status = "none" THEN orders
                              ELSE [orders EXCEPT ![o].status = status], TRUE)
       IN /\ SetDb(res.db)
          /\ published' = published \cup
                {[OrderEvent("order.status_changed", o, 0) EXCEPT !.status = status]}
    /\ inbox' = inbox \ {m}
    /\ UNCHANGED <<requests, dbQueue, cancels, storeVars, breakerVars>>

\* PATCH /orders/:id/cancel on a pending or confirmed order: the UPDATE
\* returns the row and order.cancelled is published.
Cancel(o) ==
    /\ DbIdle
    /\ OrderIdKnown(o)
    /\ o \notin cancels
    /\ orders[o].status \in {"pending", "confirmed"}
    /\ SetDb(dbWrite(Db, [orders EXCEPT ![o].status = "cancelled"], TRUE).db)
    /\ published' = published \cup {OrderEvent("order.cancelled", o, 0)}
    /\ cancels' = cancels \cup {o}
    /\ UNCHANGED <<requests, dbQueue, inbox, storeVars, breakerVars>>

\* The rest of the cancel route: the items are read and inventory.restore
\* is published for each, then the response.
CancelRestore(o) ==
    /\ DbIdle
    /\ o \in cancels
    /\ published' = published \cup
          {OrderEvent("inventory.restore", o, i) : i \in 1..orders[o].items}
    /\ cancels' = cancels \ {o}
    /\ UNCHANGED <<requests, dbQueue, tx, orders, durable, inbox,
                   storeVars, breakerVars>>

\* Orders created without a fault, then paid and cancelled.
OrderStatusNext ==
    \/ \E r \in Callers, n \in 1..MaxItems : StartOrder(r, n, 0)
    \/ \E r \in Callers : LookupCall(r)
    \/ \E r \in Callers : LookupAnswer(r, "found")
    \/ \E r \in Callers : Begin(r)
    \/ \E r \in Callers : InsertOrder(r)
    \/ \E r \in Callers : InsertItem(r)
    \/ \E r \in Callers : Commit(r)
    \/ \E r \in Callers : PublishCreated(r, TRUE)
    \/ \E r \in Callers : PublishReserve(r, TRUE)
    \/ \E o \in Callers, paymentSuccess \in BOOLEAN : Pay(o, paymentSuccess)
    \/ \E m \in inbox : HandlePayment(m)
    \/ \E o \in Callers : Cancel(o)
    \/ \E o \in Callers : CancelRestore(o)

\* Concurrent POST /orders requests.
OrderCreateNext ==
    \/ \E r \in Callers, n \in 1..MaxItems : \E bad \in 0..(n + 1) : StartOrder(r, n, bad)
    \/ \E r \in Callers : RejectBody(r)
    \/ \E r \in Callers : LookupCall(r)
    \/ \E r \in Callers : LookupFail(r)
    \/ \E r \in Callers, outcome \in ProductOutcomes : LookupAnswer(r, outcome)
    \/ \E r \in Callers : Begin(r)
    \/ \E r \in Callers : InsertOrder(r)
    \/ \E r \in Callers : InsertItem(r)
    \/ \E r \in Callers : Commit(r)
    \/ \E r \in Callers : Rollback(r)
    \/ \E r \in Callers, ok \in BOOLEAN : PublishCreated(r, ok)
    \/ \E r \in Callers, ok \in BOOLEAN : PublishReserve(r, ok)

\* The event store under concurrent storeEvent executions; the breaker
\* stays as constructed.
Spec == Init /\ [][StoreNext]_vars

\* The event store with storeEvent calls one at a time and the replay route.
ReplaySpec == Init /\ [][ReplayNext]_vars

\* The event store without faults: storeEvent calls one at a time and the
\* replay route.
ReliableSpec == Init /\ [][ReliableNext]_vars

\* The event store without faults: storeEvent executions overlapping in
\* pairs and the replay route.
ReliableConcurrentSpec == Init /\ [][ReliableConcurrentNext]_vars

\* The breaker under concurrent calls; the event store stays empty.
BreakerSpec == Init /\ [][BreakerNext]_vars

\* The breaker with calls made one at a time.
BreakerSeqSpec == Init /\ [][BreakerSeqNext]_vars

\* The event store with overlapping storeEvent executions and the
\* statistics route.
StatsSpec == Init /\ [][StatsNext]_vars

\* The event store with overlapping storeEvent executions and the route
\* that reads one aggregate's events.
AggregateReadSpec == Init /\ [][AggregateReadNext]_vars

\* The event store with storeEvent calls one at a time and the route that
\* reads the log page by page.
PageReadSpec == Init /\ [][PageReadNext]_vars

\* storeEvent applied to event types inside and outside the resolver
\* tables.
UnlistedTypeSpec == Init /\ [][UnlistedTypeNext]_vars

\* The event store with storeEvent calls one at a time and the route that
\* reads one snapshot.
SnapshotReadSpec == Init /\ [][SnapshotReadNext]_vars

\* The event store without faults, with storeEvent calls one at a time and
\* reads of the snapshot ('analytics', 'global').
AnalyticsReadSpec == Init /\ [][AnalyticsReadNext]_vars

\* The breaker in front of a dependency that recovers, with a clock that
\* keeps advancing, callers that keep calling and requests that settle.
RecoverySpec ==
    /\ Init
    /\ [][RecoveryNext]_vars
    /\ WF_vars(Tick)
    /\ \A c \in Callers : WF_vars(Call(c))
    /\ \A c \in Callers : WF_vars(Succeed(c))

\* The order service creating orders: concurrent POST /orders requests
\* behind the product-service breaker, on the one connection.
OrderCreateSpec == Init /\ [][OrderCreateNext]_vars

\* The order service with orders created without a fault, the payment and
\* cancel routes and the payment event handlers.
OrderStatusSpec == Init /\ [][OrderStatusNext]_vars

\* ------------------------------------------------- event store: properties
Quiescent == \A w \in Workers : workers[w].pc \in {"idle", "done"}

RowsOf(aggregateId, aggregateType) ==
    {r \in events : r.aggregateId = aggregateId /\ r.aggregateType = aggregateType}

\* C1: once every storeEvent call has completed, the versions stored for an
\* aggregate are exactly 1..N, N the number of its events: no gap and no
\* version held by two events.
C1_VersionsExactlyOneToN ==
    Quiescent =>
        \A e \in events :
            LET rows == RowsOf(e.aggregateId, e.aggregateType)
            IN {r.version : r \in rows} = 1..Cardinality(rows)

\* C2: two appends for the same aggregate that computed the same next
\* version never both store their event.
C2_OneWinnerPerVersion ==
    \A w1, w2 \in Workers :
        (/\ w1 # w2
         /\ workers[w1].nextVersion > 0
         /\ workers[w1].nextVersion = workers[w2].nextVersion
         /\ workers[w1].aggregateId = workers[w2].aggregateId
         /\ workers[w1].aggregateType = workers[w2].aggregateType)
        => ~ (workers[w1].stored /\ workers[w2].stored)

\* C3: an event that storeEvent has inserted is in the log whatever happens
\* to the projections, and a failed projection never takes the call to the
\* catch block: the call goes on to publish event.stored.
C3_DurableDespiteProjectionFailure ==
    \A w \in Workers :
        workers[w].stored =>
            /\ \E r \in events : r.id = workers[w].eventId
            /\ workers[w].errorAt \in {"none", "publish"}
            /\ workers[w].pc = "done" =>
                   (workers[w].published \/ workers[w].errorAt = "publish")

C3_Witness ==
    \E w \in Workers :
        /\ workers[w].pc = "done"
        /\ workers[w].stored
        /\ workers[w].published
        /\ Cardinality(workers[w].failedProjections) >= 2

\* C4: in updateProjections every projection that lists the event's type is
\* folded and handed to saveProjection, also after the snapshot write of an
\* earlier projection has failed.
C4_FailureDoesNotStopOtherProjections ==
    \A w \in Workers :
        (workers[w].stored /\ workers[w].pc = "publish") =>
            LET interested ==
                   {n \in {ProjectionOrder[i] : i \in 1..NumProjections} :
                        workers[w].eventType \in ProjectionEventTypes(n)}
            IN /\ workers[w].folded = interested
               /\ workers[w].saveCalls = interested

C4_Witness ==
    \E w \in Workers :
        /\ workers[w].pc = "publish"
        /\ "user-summary" \in workers[w].failedProjections
        /\ "analytics" \in workers[w].saveCalls

C7_OpenRejectsBeforeNextAttempt ==
    [][ (state = "OPEN" /\ now < nextAttempt /\ \E c \in Callers : Call(c)) =>
          /\ last'.op = "reject"
          /\ ~ last'.invoked
          /\ last'.emitted = <<>>
          /\ UNCHANGED <<state, failureCount, successCount, nextAttempt, calls>> ]_vars

C7_Witness ==
    /\ last.op = "reject"
    /\ state = "OPEN"
    /\ now < nextAttempt
    /\ now > 0

\* C8: a call made while the breaker is OPEN and now >= nextAttempt switches
\* it to HALF_OPEN with successCount 0, emits HALF_OPEN, and invokes the
\* wrapped request.
C8_ProbeAfterNextAttempt ==
    [][ (state = "OPEN" /\ now >= nextAttempt /\ \E c \in Callers : Call(c)) =>
          /\ state' = "HALF_OPEN"
          /\ successCount' = 0
          /\ last'.op = "invoke" /\ last'.invoked
          /\ last'.emitted = <<"HALF_OPEN">>
          /\ \E c \in Callers : calls[c].pc = "idle" /\ calls'[c].pc = "pending" ]_vars

C8_Witness ==
    /\ last.op = "invoke" /\ last.from = "OPEN"
    /\ state = "HALF_OPEN"
    /\ now = nextAttempt

\* C9: a failure of the wrapped request while the breaker is HALF_OPEN moves
\* it to OPEN and sets nextAttempt to now + timeout, whatever failureCount.
C9_HalfOpenSingleStrike ==
    [][ (state = "HALF_OPEN" /\ \E c \in Callers : Fail(c)) =>
          /\ state' = "OPEN"
          /\ nextAttempt' = now + timeout
          /\ last'.emitted = <<"OPEN">> ]_vars

C9_Witness ==
    /\ last.op = "failure" /\ last.from = "HALF_OPEN"
    /\ state = "OPEN"
    /\ failureCount < failureThreshold

SnapshotsOf(rows, name) == {r \in rows : r.name = name}

\* The snapshots the replay of projection name from sequence 1 leaves in a
\* projections table that was empty, every query succeeding.
ReplayOnEmptyStore(name) ==
    LET rows == ReplayRows(events, name, 1)
    IN ReplayLoop(rows, 1, name, {}, 0, Len(rows) + 1).projections

ConsumedEvents(name, aggregateId) ==
    {r \in events : /\ r.aggregateId = aggregateId
                    /\ r.eventType \in ProjectionEventTypes(name)}

\* Rows in version order (rows of one version in sequence order).
RECURSIVE SortByVersion(_)
SortByVersion(rows) ==
    IF rows = {} THEN <<>>
    ELSE LET r == CHOOSE x \in rows : \A y \in rows :
                     \/ x.version < y.version
                     \/ x.version = y.version /\ x.sequence <= y.sequence
         IN <<r>> \o SortByVersion(rows \ {r})

\* The fold of projection name over rows[i..], each event folded into the
\* result of the one before it, starting from existing.
RECURSIVE FoldFrom(_, _, _, _)
FoldFrom(name, rows, i, existing) ==
    IF i > Len(rows) THEN existing
    ELSE FoldFrom(name, rows, i + 1,
                  project(name, rows[i].eventType, rows[i].data, existing))

\* C13: once every storeEvent execution has finished (no replay having
\* run), the snapshot of each aggregate in each projection that consumes
\* events of that aggregate holds the fold of all those events in version
\* order, also when the executions overlapped: no event's contribution is
\* lost.
C13_SnapshotIsFoldInVersionOrder ==
    (Quiescent /\ replay = NoReplay) =>
        \A e \in events : \A i \in 1..NumProjections :
            LET name == ProjectionOrder[i]
            IN e.eventType \in ProjectionEventTypes(name) =>
                 getProjectionRow(projections, name, e.aggregateId) =
                    FoldFrom(name, SortByVersion(ConsumedEvents(name, e.aggregateId)),
                             1, Null)

\* The snapshot rows of projection name that a step creates, changes or
\* removes.
WrittenSnapshots(name) ==
    (SnapshotsOf(projections, name) \ SnapshotsOf(projections', name)) \cup
    (SnapshotsOf(projections', name) \ SnapshotsOf(projections, name))

\* C14: in every step of a storeEvent execution, the previous snapshot that
\* project() reads for a projection is the one under the event's own
\* aggregateId, and the snapshots of a projection change only in the
\* saveProjection step of an event whose type the projection lists, and
\* only under that event's aggregateId.
C14_FoldReadsAndWritesEventKey ==
    [][\A w \in Workers :
         workers'[w] # workers[w] =>
           /\ workers[w].pc = "project" =>
                 ProjectionReadKey(ProjectionOrder[workers[w].projIdx],
                                   workers[w].aggregateId) = workers[w].aggregateId
           /\ \A i \in 1..NumProjections :
                 WrittenSnapshots(ProjectionOrder[i]) # {} =>
                    /\ workers[w].pc = "save"
                    /\ workers[w].projIdx = i
                    /\ workers[w].eventType \in ProjectionEventTypes(ProjectionOrder[i])
                    /\ \A r \in WrittenSnapshots(ProjectionOrder[i]) :
                          r.aggregateId = workers[w].aggregateId]_vars

\* The rows stored under (name, aggregateId) in rows.
SnapshotRows(rows, name, aggregateId) ==
    {r \in rows : r.name = name /\ r.aggregateId = aggregateId}

\* C15: a saveProjection call whose query reaches the server leaves one
\* snapshot under (projection, aggregate), with version 1 when there was
\* none and the previous version + 1 when there was one, and with
\* lastEventId the id of the folded event; and no step ever lowers the
\* version of a snapshot or removes it.
C15_WriteSetsVersionAndLastEvent ==
    [][/\ \A w \in Workers :
            (workers[w].pc = "save" /\ workers'[w] # workers[w]) =>
               LET name == ProjectionOrder[workers[w].projIdx]
                   before == SnapshotRows(projections, name, workers[w].aggregateId)
                   after == SnapshotRows(projections', name, workers[w].aggregateId)
               IN /\ Cardinality(after) = 1
                  /\ \A r \in after :
                        /\ r.lastEventId = workers[w].eventId
                        /\ r.version = IF before = {} THEN 1
                                       ELSE (CHOOSE b \in before : TRUE).version + 1
       /\ \A r \in projections :
            \E q \in SnapshotRows(projections', r.name, r.aggregateId) :
                q.version >= r.version]_vars

\* C16: storeEvent calls being handled one at a time, once an order.created
\* and then k order.status_changed events of one order have been handled,
\* the order-summary snapshot of that order exists, its status is the
\* status of the last event and its statusHistory is 'pending' followed by
\* the k statuses in event order (length k + 1).
C16_OrderSummaryAfterStatusChanges ==
    (Quiescent /\ replay = NoReplay) =>
        \A e \in events :
            LET rows == SortByVersion(RowsOf(e.aggregateId, e.aggregateType))
                k == Len(rows) - 1
                snapshot == getProjectionRow(projections, "order-summary",
                                             e.aggregateId)
            IN (/\ e.eventType = "order.created"
                /\ rows[1] = e
                /\ \A i \in 2..Len(rows) : rows[i].eventType = "order.status_changed")
               => /\ snapshot # Null
                  /\ snapshot[1].status =
                        (IF k = 0 THEN "pending" ELSE rows[k + 1].data.status)
                  /\ snapshot[1].statusHistory =
                        <<"pending">> \o [i \in 1..k |-> rows[i + 1].data.status]

\* C17: a replay of a registered projection whose SELECT succeeds folds
\* exactly the stored events with sequence >= fromSequence and a type the
\* projection lists, each once and in ascending sequence order, and answers
\* with eventsReplayed equal to the number of those events.
C17_ReplayFoldsMatchingEventsInOrder ==
    [][replay' # replay =>
       \A name \in ReplayNames, fromSequence \in 1..MaxFromSequence :
          (/\ ProjectionEventTypes(name) # {}
           /\ Replay(name, fromSequence, Cardinality(events) + 1)) =>
             LET matching == {r \in events :
                                 /\ r.sequence >= fromSequence
                                 /\ r.eventType \in ProjectionEventTypes(name)}
                 rows == ReplayRows(events, name, fromSequence)
             IN /\ {rows[i] : i \in 1..Len(rows)} = matching
                /\ Len(rows) = Cardinality(matching)
                /\ \A i, j \in 1..Len(rows) :
                      i < j => rows[i].sequence < rows[j].sequence
                /\ replay'.response = "200"
                /\ replay'.replayedCount = Cardinality(matching)]_vars

\* A replay has answered that it replayed two events.
C17_Witness == replay.response = "200" /\ replay.replayedCount >= 2

C19_ReplayOverwritesWithFoldFromEmpty ==
    [][(workers' = workers /\ Quiescent) =>
       \A i \in 1..NumProjections :
          Replay(ProjectionOrder[i], 1, Cardinality(events) + 1) =>
             \A e \in events :
                e.eventType \in ProjectionEventTypes(ProjectionOrder[i]) =>
                   getProjectionRow(projections', ProjectionOrder[i], e.aggregateId) =
                      FoldFrom(ProjectionOrder[i],
                               SortBySequence(ConsumedEvents(ProjectionOrder[i],
                                                             e.aggregateId)),
                               1, Null)]_vars

WithoutSequence(rows) == {[r EXCEPT !.sequence = 0] : r \in rows}

\* C21: every stored event has a sequence number distinct from that of every
\* other event and greater than that of every event stored before it,
\* whatever the aggregates; the version storeEvent computes is the one it
\* would compute from the table without its sequence numbers.
C21_SequenceGlobalAndIncreasing ==
    [][ /\ \A r \in events' \ events : \A q \in events : q.sequence < r.sequence
        /\ \A r \in events' : \A q \in events' :
              r.sequence = q.sequence => r = q
        /\ \A w \in Workers :
              workers[w].pc = "idle" /\ workers'[w].pc = "insert"
              => workers'[w].nextVersion =
                    MaxVersion(WithoutSequence(events), workers'[w].aggregateId,
                               workers'[w].aggregateType) + 1 ]_vars

\* Two events of different aggregates, each the first of its aggregate, the
\* later one with the greater sequence number.
C21_Witness ==
    \E r \in events : \E q \in events :
        /\ r.aggregateId # q.aggregateId
        /\ r.version = q.version
        /\ r.sequence < q.sequence

\* C22: every step that changes the breaker's state, whichever of call(),
\* onSuccess, onFailure and reset() makes the change, invokes onStateChange
\* exactly once in that step, with the new state as its argument.
C22_StateChangeInvokesCallback ==
    [][ state' # state => last'.emitted = <<state'>> ]_vars

\* The breaker has just gone from HALF_OPEN to CLOSED by a success, after
\* having gone from CLOSED to OPEN and from OPEN to HALF_OPEN.
C22_Witness ==
    /\ last.op = "success" /\ last.from = "HALF_OPEN"
    /\ state = "CLOSED"
    /\ last.emitted = <<"CLOSED">>

\* C23: reset() leaves state = CLOSED, failureCount = 0 and successCount = 0
\* whatever they were, and a call made right after it invokes the wrapped
\* request.
C23_ResetClosesAndZeroes ==
    [][ /\ last'.op = "reset" =>
              /\ state' = "CLOSED"
              /\ failureCount' = 0
              /\ successCount' = 0
        /\ (last.op = "reset" /\ \E c \in Callers : Call(c)) =>
              /\ last'.op = "invoke" /\ last'.invoked
              /\ \E c \in Callers : calls[c].pc = "idle" /\ calls'[c].pc = "pending"
      ]_vars

\* reset() has just closed an OPEN breaker.
C23_Witness ==
    /\ last.op = "reset" /\ last.from = "OPEN"
    /\ state = "CLOSED"
    /\ failureCount = 0 /\ successCount = 0

\* C24: successCount is 0 in every state other than HALF_OPEN, and
\* failureCount is 0 right after a transition to CLOSED.
C24_CountersResetOnTransitions ==
    /\ state # "HALF_OPEN" => successCount = 0
    /\ (state = "CLOSED" /\ last.from # "CLOSED"
        /\ last.op \in {"success", "reset"}) => failureCount = 0

\* The storeEvent calls made so far.
AppendCalls == {w \in Workers : workers[w].pc # "idle"}

\* C25: a successful statistics response gives, as decimal text, the number
\* of rows of the log at that moment and the numbers of distinct aggregate
\* types and event types in it, and as latest_sequence the largest sequence
\* number stored; once every storeEvent call made has completed without
\* failure the total is the number of calls; the request changes no table
\* and no execution.
C25_StatsMatchLog ==
    [][ reply'.route = "stats" =>
          /\ UNCHANGED <<events, sequence, projections, workers, replay>>
          /\ reply'.status = 200 =>
               /\ parseInt(reply'.stats.total_events) = Cardinality(events)
               /\ parseInt(reply'.stats.aggregate_types) =
                     Cardinality({r.aggregateType : r \in events})
               /\ parseInt(reply'.stats.event_types) =
                     Cardinality({r.eventType : r \in events})
               /\ \A r \in events :
                     /\ reply'.stats.latest_sequence # Null
                     /\ r.sequence <= reply'.stats.latest_sequence[1]
               /\ reply'.stats.latest_sequence # Null =>
                     \E r \in events : r.sequence = reply'.stats.latest_sequence[1]
               /\ (Quiescent /\ \A w \in AppendCalls : workers[w].stored) =>
                     parseInt(reply'.stats.total_events) = Cardinality(AppendCalls)
      ]_vars

\* Statistics of a log written by overlapping executions that all
\* succeeded, with more event types than aggregate types.
C25_Witness ==
    /\ reply.route = "stats" /\ reply.status = 200
    /\ Quiescent
    /\ \A w \in Workers : workers[w].stored
    /\ reply.stats.total_events = DecimalText(MaxEvents)
    /\ reply.stats.aggregate_types # reply.stats.event_types
    /\ \E r \in events : \E q \in events :
          r # q /\ r.aggregateId = q.aggregateId /\ r.version = q.version

\* C26: a successful read of an aggregate's events returns each event of
\* that aggregate id and type whose version is >= fromVersion (1 when the
\* parameter is absent) exactly once, and nothing else, in ascending version
\* order; the list is empty when there is no such event.
C26_ReadReturnsAggregateFromVersion ==
    [][ (reply'.route = "aggregateEvents" /\ reply'.status = 200) =>
          LET request == reply'.request
              fromVersion == IF request.fromVersion = <<>> THEN 1
                             ELSE parseInt(request.fromVersion)
              result == reply'.events
              expected == {r \in events :
                             /\ r.aggregateId = request.aggregateId
                             /\ r.aggregateType = request.aggregateType
                             /\ r.version >= fromVersion}
          IN /\ {result[i] : i \in 1..Len(result)} = expected
             /\ Len(result) = Cardinality(expected)
             /\ \A i \in 1..Len(result) : \A j \in 1..Len(result) :
                   i < j => result[i].version <= result[j].version
             /\ expected = {} => result = <<>> ]_vars

\* A read with fromVersion = MaxEvents of an aggregate that has events of
\* lower version, while the log holds events of another aggregate: one
\* event comes back.
C26_Witness ==
    /\ reply.route = "aggregateEvents" /\ reply.status = 200
    /\ reply.request.fromVersion = DecimalText(MaxEvents)
    /\ Len(reply.events) = 1
    /\ \E r \in events : /\ r.aggregateId = reply.request.aggregateId
                         /\ r.aggregateType = reply.request.aggregateType
                         /\ r.version < MaxEvents

\* C27: a successful read of page p (1 when absent) with page size s (50
\* when absent) returns, of the events that match the filter (all events
\* without a filter) taken in descending sequence order, those at positions
\* (p-1)*s to p*s-1, with totalEvents equal to the number of matching events;
\* on one state of the log, the pages 1..ceil(totalEvents/s) hold every
\* matching event exactly once.
C27_ReadAllPages ==
    [][ (reply'.route = "events" /\ reply'.status = 200) =>
          LET request == reply'.request
              p == IF request.page = <<>> THEN 1 ELSE parseInt(request.page)
              s == IF request.limit = <<>> THEN DefaultLimit
                   ELSE parseInt(request.limit)
              filtered == {r \in events : request.eventType # ""
                                          => r.eventType = request.eventType}
              result == reply'.events
              total == reply'.pagination.totalEvents
              rest == Cardinality(filtered) - (p - 1) * s
              pages == 1..((total + s - 1) \div s)
          IN /\ total = Cardinality(filtered)
             /\ Len(result) = IF rest <= 0 THEN 0 ELSE IF rest < s THEN rest ELSE s
             /\ \A i \in 1..Len(result) :
                   /\ result[i] \in filtered
                   /\ Cardinality({q \in filtered :
                                     q.sequence > result[i].sequence})
                         = (p - 1) * s + i - 1
             /\ p \in pages =>
                   result = EventsPage(events, request.eventType, s, (p - 1) * s)
             /\ \A r \in filtered :
                   Cardinality({<<q, i>> \in pages \X (1..s) :
                       LET page == EventsPage(events, request.eventType, s,
                                              (q - 1) * s)
                       IN i <= Len(page) /\ page[i] = r}) = 1 ]_vars

\* The second and last page of size 1 of an unfiltered log of events of
\* different types.
C27_Witness ==
    /\ reply.route = "events" /\ reply.status = 200
    /\ reply.request.eventType = ""
    /\ reply.request.page = DecimalText(2)
    /\ reply.request.limit = DecimalText(1)
    /\ Len(reply.events) = 1
    /\ reply.pagination.totalEvents = MaxEvents
    /\ \E r \in events : r.eventType # reply.events[1].eventType

\* C28: a storeEvent execution for an event type outside the resolver tables
\* takes aggregate id 'unknown' and aggregate type 'Unknown', fails at no
\* step, stores its event under that aggregate, and never reaches a fold or
\* a snapshot write: no step of it changes the projections table.
C28_UnlistedTypeStoredWithoutProjection ==
    [][ \A w \in Workers :
          /\ (workers[w].pc = "idle" /\ workers'[w].eventType = UnlistedEventType) =>
                /\ workers'[w].pc = "insert"
                /\ workers'[w].aggregateId = <<"unknown">>
                /\ workers'[w].aggregateType = "Unknown"
          /\ (workers[w].eventType = UnlistedEventType /\ workers'[w] # workers[w]) =>
                /\ workers'[w].pc \in {"publish", "done"}
                /\ workers'[w].errorAt = "none"
                /\ workers'[w].failedProjections = {}
                /\ workers'[w].stored
                /\ \E r \in events' : /\ r.id = workers'[w].eventId
                                      /\ r.eventType = UnlistedEventType
                                      /\ r.aggregateId = <<"unknown">>
                                      /\ r.aggregateType = "Unknown"
                /\ projections' = projections ]_vars

\* Two events of unlisted type stored, the second as version 2 of the
\* aggregate ('unknown', 'Unknown'), both executions returned.
C28_Witness ==
    /\ Quiescent
    /\ \E r \in events : /\ r.eventType = UnlistedEventType
                         /\ r.aggregateId = <<"unknown">>
                         /\ r.aggregateType = "Unknown"
                         /\ r.version = 2
    /\ \A w \in Workers : workers[w].stored /\ workers[w].published

C30_AnalyticsGlobalFound ==
    (/\ reply.route = "projection"
     /\ reply.request.projectionName = "analytics"
     /\ reply.request.aggregateId = <<"global">>
     /\ \E w \in Workers : \E r \in events :
           /\ workers[w].pc = "done" /\ workers[w].eventId = r.id
           /\ r.eventType \in ProjectionEventTypes("analytics"))
    => reply.status = 200

\* A returned storeEvent execution whose version query or INSERT failed.
StorageFailed(wk) == wk.pc = "done" /\ wk.errorAt \in {"readVersion", "insert"}

\* C32: a storeEvent execution whose version query or INSERT failed ends
\* with a rejected promise, has stored no event, has started no projection
\* and has published no event.stored.
C32_StorageFailureSurfaces ==
    \A w \in Workers :
        StorageFailed(workers[w]) =>
            /\ storeEventSettled(workers[w]).status = "rejected"
            /\ ~ workers[w].stored
            /\ ~ workers[w].published
            /\ workers[w].failedProjections = {}
            /\ \A r \in events : r.id # workers[w].eventId

\* The wrapped requests in flight that were invoked while the breaker was
\* HALF_OPEN.
HalfOpenProbes == {c \in Callers : calls[c].pc = "pending"
                                   /\ calls[c].startedIn = "HALF_OPEN"}

\* C34: while the breaker is HALF_OPEN at most one wrapped request invoked
\* in HALF_OPEN is in flight.
C34_OneProbeInHalfOpen ==
    state = "HALF_OPEN" => Cardinality(HalfOpenProbes) <= 1

\* C35: in every reachable state of the breaker, whatever the interleaving
\* of calls, completions and reset(), state is CLOSED, OPEN or HALF_OPEN, a
\* CLOSED breaker has failureCount < failureThreshold, and successCount <
\* successThreshold.
C35_BreakerStateInvariant ==
    /\ state \in {"CLOSED", "OPEN", "HALF_OPEN"}
    /\ state = "CLOSED" => failureCount < failureThreshold
    /\ successCount < successThreshold
    /\ failureCount >= 0 /\ successCount >= 0

\* A CLOSED breaker one failure short of the threshold, with wrapped
\* requests of several callers in flight.
C35_Witness ==
    /\ state = "CLOSED"
    /\ failureCount = failureThreshold - 1
    /\ \A c \in Callers : calls[c].pc = "pending"

\* C36: while the breaker stays OPEN, no step moves nextAttempt or invokes
\* onStateChange: in particular not the failure of a wrapped request that
\* was invoked while the breaker was CLOSED.
C36_OpenWindowFixed ==
    [][ (state = "OPEN" /\ state' = "OPEN") =>
          /\ nextAttempt' = nextAttempt
          /\ last'.emitted = <<>> ]_vars

\* C37: when the wrapped request stops failing while the clock keeps
\* advancing and callers keep calling, the breaker is eventually CLOSED and
\* remains CLOSED, whatever state the failures left it in.
C37_EventuallyClosedForGood == <>[](state = "CLOSED")

\* The breaker closed by the second successful probe after the dependency
\* recovered.
C37_Witness ==
    /\ ~ DependencyFailing
    /\ last.op = "success" /\ last.from = "HALF_OPEN"
    /\ state = "CLOSED"
    /\ nextAttempt = MaxNow

\* C38: once every storeEvent call, made one at a time, has returned and at
\* least one user.created or order.created event is stored, the snapshot
\* ('analytics', 'global') exists, its totalUsers is the number of
\* user.created events stored and its totalOrders the number of
\* order.created events stored, whatever their aggregates.
C38_AnalyticsAccumulates ==
    LET userCreated == {r \in events : r.eventType = "user.created"}
        orderCreated == {r \in events : r.eventType = "order.created"}
        snapshot == getProjectionRow(projections, "analytics", <<"global">>)
    IN (Quiescent /\ userCreated \cup orderCreated # {}) =>
          /\ snapshot # Null
          /\ snapshot[1].totalUsers = Cardinality(userCreated)
          /\ snapshot[1].totalOrders = Cardinality(orderCreated)

\* ------------------------------------------------ order service: properties
\* C33: a POST /orders request whose product lookup was rejected by the
\* open breaker is answered differently from a request whose product
\* lookup failed in the product service.
C33_RejectionDistinguishable ==
    \A r, q \in Callers :
        (/\ requests[r].pc = "done" /\ requests[r].cause = "circuitOpen"
         /\ requests[q].pc = "done" /\ requests[q].cause = "lookupFailed")
        => requests[r].response # requests[q].response

\* C40: every order.created and inventory.reserve event published is of an
\* order whose row is committed; a request whose product lookup failed or
\* was rejected by the breaker has written no order row and published no
\* event.
C40_PublishAfterCommit ==
    /\ \A e \in published :
          e.type \in {"order.created", "inventory.reserve"}
          => durable[e.orderId].status # "none"
    /\ \A r \in Callers :
          requests[r].cause \in {"circuitOpen", "lookupFailed"}
          => /\ orders[r] = NoOrder
             /\ durable[r] = NoOrder
             /\ \A e \in published : e.orderId # r

\* C39: no step changes the status of a cancelled order.
C39_CancelledIsFinal ==
    [][ \A o \in Callers :
           orders[o].status = "cancelled" => orders'[o].status = "cancelled" ]_vars

====
